---------------------------- MODULE Spec2Model ----------------------------
(***************************************************************************)
(* A model of the dynamic-forest library stt-rs: 2-cut search trees on     *)
(* trees (STTs) with their restructuring strategies, the link-cut forest,  *)
(* the naive one-cut forest and the rooted forests, each run against the   *)
(* reference forest the integration tests use.                            *)
(*                                                                         *)
(* A forest is a record of per-node arrays (functions over Nodes), as the  *)
(* source keeps a Vec<Node>.  Option<NodeIdx> is a node or None;           *)
(* WeightOrInfinity and Option<TWeight> are sequences of length <= 1.      *)
(* A failed assertion or a panic aborts the handler: the forest it was     *)
(* running on gets its err field set and no further operation is issued.   *)
(***************************************************************************)
EXTENDS Integers, Sequences, FiniteSets, TLC

VARIABLES impl, f, g

vars == <<impl, f, g>>

\* ------------------------------------------------------------------ bounds
NumNodes == 4
MaxWeight == 2
MaxSteps == 3

Nodes == 0 .. (NumNodes - 1)
Weights == 1 .. MaxWeight
\* Every loop of the source is unrolled at most Fuel times; running out of
\* fuel is reported as the error "fuel" (the loop did not terminate in time).
Fuel == 4 * NumNodes * NumNodes

\* --------------------------------------------------------- Option, weights
None == -1

Infinite == << >>
Finite(w) == << w >>
NoneW == << >>
SomeW(w) == << w >>

\* UnsignedMaxMonoidWeight + UnsignedMaxMonoidWeight: the maximum (its identity
\* is zero).  The group weights are SignedAddGroupWeight: integers under +.
UnsignedMax_add(a, b) == IF a > b THEN a ELSE b

\* MonoidWeightWithMaxEdge<UsizeMaxMonoidWeight>: a weight and, possibly, an
\* edge; the Option<(NodeIdx, NodeIdx)> is the empty sequence or a pair
MaxEdge_new(value, edge) == [value |-> value, edge |-> edge]

\* MonoidWeight::identity of MonoidWeightWithMaxEdge
MaxEdge_identity == [value |-> 0, edge |-> << >>]

\* MonoidWeightWithMaxEdge + MonoidWeightWithMaxEdge
MaxEdge_add(a, b) ==
  [value |-> UnsignedMax_add(a.value, b.value),
   edge |-> IF a.value > b.value THEN a.edge ELSE b.edge]

\* A forest keeps a monoid weight as one integer: an UnsignedMaxMonoidWeight
\* is its value (0 .. MaxWeight); a MonoidWeightWithMaxEdge with the edge
\* (u, v) is its value plus (MaxWeight + 1) * (1 + u * NumNodes + v), and
\* with no edge it is its value.
MaxEdge_code(a) ==
  a.value + (MaxWeight + 1) * (IF a.edge = << >> THEN 0
                               ELSE 1 + a.edge[1] * NumNodes + a.edge[2])

MaxEdge_of(n) ==
  [value |-> n % (MaxWeight + 1),
   edge |-> IF n <= MaxWeight THEN << >>
            ELSE << ((n \div (MaxWeight + 1)) - 1) \div NumNodes,
                    ((n \div (MaxWeight + 1)) - 1) % NumNodes >>]

\* TWeight + TWeight of the monoid weights a forest holds
Monoid_add(a, b) ==
  IF a <= MaxWeight /\ b <= MaxWeight THEN UnsignedMax_add(a, b)
  ELSE MaxEdge_code(MaxEdge_add(MaxEdge_of(a), MaxEdge_of(b)))

\* WeightOrInfinity + WeightOrInfinity over the monoid weights
WAdd(a, b) ==
  IF a # Infinite /\ b # Infinite THEN Finite(Monoid_add(a[1], b[1])) ELSE Infinite
\* the value read by WeightOrInfinity::unwrap (which panics on Infinite: the
\* callers below record that in err)
WVal(a) == IF a # Infinite THEN a[1] ELSE 0

Fail(t, why) == IF t.err = "" THEN [t EXCEPT !.err = why] ELSE t

\* ------------------------------------------------------- 2-cut STT forests
NoNode == [x \in Nodes |-> None]
NoWeight == [x \in Nodes |-> Infinite]

\* STT::new for StandardDynamicForest; the record carries the node data of
\* both generic instantiations (MonoidPathWeightNodeData: pdist, adist;
\* GroupPathWeightNodeData: gdist), which never influence the structure.
STT_new_weighted ==
  [kind |-> "weighted", parent |-> NoNode, dsep |-> NoNode, isep |-> NoNode,
   pdist |-> NoWeight, adist |-> NoWeight, gdist |-> NoWeight, err |-> ""]

\* STT::new for the rooted forests: RootedNodeData::new(v) = desc_root Some(v)
STT_new_rooted ==
  [kind |-> "rooted", parent |-> NoNode, dsep |-> NoNode, isep |-> NoNode,
   desc_root |-> [x \in Nodes |-> x], err |-> ""]

opt_is_different(opt, expected) == opt # None /\ opt # expected

is_direct_separator(t, v) == t.parent[v] # None /\ t.dsep[t.parent[v]] = v
is_indirect_separator(t, v) == t.parent[v] # None /\ t.isep[t.parent[v]] = v
is_separator(t, v) == is_direct_separator(t, v) \/ is_indirect_separator(t, v)

\* is_separator with the parent p of v given (used by the move-to-root strategy)
is_separator_hint(t, v, p) == t.dsep[p] = v \/ t.isep[p] = v

\* every node with a parent may be rotated
can_rotate_any(t, v) == t.parent[v] # None

can_rotate(t, v) ==
  IF t.parent[v] # None
  THEN is_separator(t, v) \/ ~is_separator(t, t.parent[v])
  ELSE FALSE

\* a rotation that only exchanges v and its parent in the parent pointers
rotate_parents_only(t, v) ==
  IF t.err # "" \/ t.parent[v] = None THEN t
  ELSE [t EXCEPT !.parent[t.parent[v]] = v, !.parent[v] = t.parent[t.parent[v]]]

\* rotate without the case that v was the direct separator child of p: the
\* separator children of v are always set as if p separated v from gp
rotate_p_always_separates(t, v) ==
  IF t.err # "" THEN t
  ELSE IF t.parent[v] = None THEN Fail(t, "rotate_root")
  ELSE IF ~(is_separator(t, v) \/ ~is_separator(t, t.parent[v])) THEN Fail(t, "rotate_illegal")
  ELSE
  LET p == t.parent[v]
      gp_p == t.parent[p]
      c_p == t.dsep[v]
      children_of_gp(a) ==
        IF gp_p # None /\ a.dsep[gp_p] = p THEN [a EXCEPT !.dsep[gp_p] = v]
        ELSE IF gp_p # None /\ a.isep[gp_p] = p THEN [a EXCEPT !.isep[gp_p] = v]
        ELSE a
      children_of_p(a) ==
        [a EXCEPT !.dsep[p] = c_p,
                  !.isep[p] = IF opt_is_different(a.dsep[p], v) THEN a.dsep[p]
                              ELSE IF a.isep[p] = v THEN None
                              ELSE a.isep[p]]
      children_of_v(a) ==
        IF gp_p # None THEN [a EXCEPT !.dsep[v] = p]
        ELSE [a EXCEPT !.dsep[v] = None]
      children_of_c(a) ==
        IF c_p # None THEN [a EXCEPT !.dsep[c_p] = a.isep[c_p], !.isep[c_p] = a.dsep[c_p]]
        ELSE a
  IN children_of_c(children_of_v(children_of_p(children_of_gp(
       IF c_p # None THEN [t EXCEPT !.parent[p] = v, !.parent[v] = gp_p, !.parent[c_p] = p]
       ELSE [t EXCEPT !.parent[p] = v, !.parent[v] = gp_p]))))

\* STT::rotate: the pointer changes of one rotation of v with its parent
STT_rotate(t, v) ==
  IF t.err # "" THEN t
  ELSE IF t.parent[v] = None THEN Fail(t, "rotate_root")
  ELSE IF ~(is_separator(t, v) \/ ~is_separator(t, t.parent[v])) THEN Fail(t, "rotate_illegal")
  ELSE
  LET p == t.parent[v]
      gp_p == t.parent[p]
      c_p == t.dsep[v]
      p_was_sep == is_separator(t, p)
      \* change separator information for children of gp
      children_of_gp(a) ==
        IF gp_p # None /\ a.dsep[gp_p] = p THEN [a EXCEPT !.dsep[gp_p] = v]
        ELSE IF gp_p # None /\ a.isep[gp_p] = p THEN [a EXCEPT !.isep[gp_p] = v]
        ELSE a
      \* change separator information for children of p
      children_of_p(a) ==
        [a EXCEPT !.dsep[p] = c_p,
                  !.isep[p] = IF opt_is_different(a.dsep[p], v) THEN a.dsep[p]
                              ELSE IF a.isep[p] = v THEN None
                              ELSE a.isep[p]]
      \* change separator information for children of v
      children_of_v(a, old_p_dsep_child) ==
        IF gp_p # None
        THEN IF old_p_dsep_child # v THEN [a EXCEPT !.dsep[v] = p]
             ELSE [a EXCEPT !.dsep[v] = a.isep[v],
                            !.isep[v] = IF p_was_sep THEN p ELSE None]
        ELSE IF a.isep[v] # None THEN Fail([a EXCEPT !.dsep[v] = None], "rotate_root_isep")
        ELSE [a EXCEPT !.dsep[v] = None]
      \* swap_sep_children of c
      children_of_c(a) ==
        IF c_p # None THEN [a EXCEPT !.dsep[c_p] = a.isep[c_p], !.isep[c_p] = a.dsep[c_p]]
        ELSE a
      separators(a) == children_of_c(children_of_v(children_of_p(a), a.dsep[p]))
  IN separators(children_of_gp(
       IF c_p # None THEN [t EXCEPT !.parent[p] = v, !.parent[v] = gp_p, !.parent[c_p] = p]
       ELSE [t EXCEPT !.parent[p] = v, !.parent[v] = gp_p]))

\* the forest with the monoid path weights left as they were before a rotation
Monoid_weights_kept(t, v) == t

\* before_rotation that swaps the two distances of every child of v, not
\* only of its direct separator child
Monoid_swap_all_children(t, v) ==
  LET p == t.parent[v]
      swapped(a) ==
        IF t.dsep[p] = v
        THEN [a EXCEPT !.pdist[p] = a.pdist[v],
                       !.pdist[v] = a.adist[v],
                       !.adist[v] = WAdd(a.pdist[v], a.adist[p])]
        ELSE [a EXCEPT !.pdist[p] = a.pdist[v],
                       !.pdist[v] = WAdd(a.pdist[v], a.pdist[p]),
                       !.adist[p] = a.pdist[p]]
  IN swapped([t EXCEPT !.pdist = [c \in Nodes |-> IF t.parent[c] = v THEN t.adist[c] ELSE t.pdist[c]],
                       !.adist = [c \in Nodes |-> IF t.parent[c] = v THEN t.pdist[c] ELSE t.adist[c]]])

\* before_rotation that keeps adist of the parent p where p comes to lie
\* between v and gp
Monoid_p_adist_kept(t, v) ==
  LET p == t.parent[v]
      c == t.dsep[v]
      swapped(a) ==
        IF t.dsep[p] = v
        THEN [a EXCEPT !.pdist[p] = a.pdist[v],
                       !.pdist[v] = a.adist[v],
                       !.adist[v] = WAdd(a.pdist[v], a.adist[p])]
        ELSE [a EXCEPT !.pdist[p] = a.pdist[v],
                       !.pdist[v] = WAdd(a.pdist[v], a.pdist[p])]
  IN swapped(IF c # None THEN [t EXCEPT !.pdist[c] = t.adist[c], !.adist[c] = t.pdist[c]]
             ELSE t)

\* MonoidPathWeightNodeData::before_rotation on (pdist, adist)
Monoid_before_rotation(t, v) ==
  LET p == t.parent[v]
      c == t.dsep[v]
      swapped(a) ==
        IF t.dsep[p] = v
        THEN [a EXCEPT !.pdist[p] = a.pdist[v],
                       !.pdist[v] = a.adist[v],
                       !.adist[v] = WAdd(a.pdist[v], a.adist[p])]
        ELSE [a EXCEPT !.pdist[p] = a.pdist[v],
                       !.pdist[v] = WAdd(a.pdist[v], a.pdist[p]),
                       !.adist[p] = a.pdist[p]]
  IN swapped(IF c # None THEN [t EXCEPT !.pdist[c] = t.adist[c], !.adist[c] = t.pdist[c]]
             ELSE t)

\* GroupPathWeightNodeData::before_rotation on gdist
Group_before_rotation(t, v) ==
  LET p == t.parent[v]
      c == t.dsep[v]
      v_pdist_old == WVal(t.gdist[v])
      p_pdist_old_p == t.gdist[p]
      with_c == IF c # None
                THEN [t EXCEPT !.gdist[c] = Finite(v_pdist_old - WVal(t.gdist[c]))]
                ELSE t
  IN IF t.gdist[v] = Infinite \/ (c # None /\ t.gdist[c] = Infinite)
     THEN Fail(t, "unwrap_infinite")
     ELSE [with_c EXCEPT
             !.gdist[p] = Finite(v_pdist_old),
             !.gdist[v] = IF p_pdist_old_p = Infinite THEN Infinite
                          ELSE IF t.dsep[p] = v THEN Finite(p_pdist_old_p[1] - v_pdist_old)
                          ELSE Finite(p_pdist_old_p[1] + v_pdist_old)]

\* the rooted forest with desc_root left as it was before a rotation
desc_root_kept(t, v) == t

\* the rotate of the rooted forest with the desc_root of v and p exchanged
desc_root_exchanged(t, v) ==
  [t EXCEPT !.desc_root[v] = t.desc_root[t.parent[v]],
            !.desc_root[t.parent[v]] = t.desc_root[v]]

\* BasicRootedDynamicForest::rotate: the desc_root update before the rotation
Rooted_before_rotation(t, v) ==
  LET p == t.parent[v]
      c == t.dsep[v]
  IN IF t.desc_root[v] # None /\ (c = None \/ t.desc_root[c] = None)
     THEN [t EXCEPT !.desc_root[v] = t.desc_root[p], !.desc_root[p] = None]
     ELSE [t EXCEPT !.desc_root[v] = t.desc_root[p]]

\* the node-data callback of the forest wrapping the STT
before_rotation(t, v) ==
  IF t.kind = "weighted" THEN Group_before_rotation(Monoid_before_rotation(t, v), v)
  ELSE IF t.kind = "rooted" THEN Rooted_before_rotation(t, v)
  ELSE t

\* STTRotate::rotate of the forest wrapping the STT: the node-data callback,
\* then STT::rotate
rotate(t, v) ==
  IF t.err # "" THEN t
  ELSE IF t.parent[v] = None THEN Fail(t, "rotate_root")
  ELSE STT_rotate(before_rotation(t, v), v)

\* STT::attach and STT::detach
attach(t, child, parent) ==
  IF t.err # "" THEN t
  ELSE IF t.parent[child] # None THEN Fail(t, "attach_has_parent")
  ELSE [t EXCEPT !.parent[child] = parent]

detach(t, v) ==
  IF t.err # "" THEN t
  ELSE IF t.parent[v] = None THEN Fail(t, "detach_root")
  ELSE IF is_separator(t, v) THEN Fail(t, "detach_separator")
  ELSE [t EXCEPT !.parent[v] = None]

\* ------------------------------------------------ move-to-root (mtrtt.rs)
RECURSIVE MoveToRoot_rotate_p_loop(_, _, _)
\* the loop inside move_step: rotate at p as long as p is a separator
MoveToRoot_rotate_p_loop(t, p, fuel) ==
  IF t.err # "" THEN t
  ELSE IF fuel = 0 THEN Fail(t, "fuel")
  ELSE IF t.parent[p] # None /\ is_separator_hint(t, p, t.parent[p])
       THEN MoveToRoot_rotate_p_loop(rotate(t, p), p, fuel - 1)
       ELSE t

\* move_step without the loop that rotates at p first
move_step_direct(t, v, p) == rotate(t, v)

MoveToRoot_move_step(t, v, p) ==
  IF t.err # "" THEN t
  ELSE rotate(IF ~is_separator_hint(t, v, p) THEN MoveToRoot_rotate_p_loop(t, p, Fuel) ELSE t,
              v)

RECURSIVE MoveToRoot_node_to_root_loop(_, _, _)
MoveToRoot_node_to_root_loop(t, v, fuel) ==
  IF t.err # "" THEN t
  ELSE IF t.parent[v] = None THEN t
  ELSE IF fuel = 0 THEN Fail(t, "fuel")
  ELSE MoveToRoot_node_to_root_loop(MoveToRoot_move_step(t, v, t.parent[v]), v, fuel - 1)

MoveToRoot_node_to_root(t, v) == MoveToRoot_node_to_root_loop(t, v, Fuel)

\* the loop of node_below_root that does not stop below the root
below_root_loop_to_root(t, v, fuel) == MoveToRoot_node_to_root_loop(t, v, fuel)

RECURSIVE MoveToRoot_node_below_root_loop(_, _, _)
MoveToRoot_node_below_root_loop(t, v, fuel) ==
  IF t.err # "" THEN t
  ELSE IF t.parent[v] = None THEN Fail(t, "unwrap_none")
  ELSE IF t.parent[t.parent[v]] = None THEN t
  ELSE IF fuel = 0 THEN Fail(t, "fuel")
  ELSE MoveToRoot_node_below_root_loop(MoveToRoot_move_step(t, v, t.parent[v]), v, fuel - 1)

MoveToRoot_node_below_root(t, v) ==
  IF t.err # "" THEN t
  ELSE IF t.parent[v] = None THEN Fail(t, "node_below_root_of_root")
  ELSE MoveToRoot_node_below_root_loop(t, v, Fuel)

\* can_splay_step that asks for one separator among x and p only
can_splay_step_either(t, x, p, gp) ==
  ~is_separator(t, gp) \/ is_separator(t, x) \/ is_separator(t, p)

\* ------------------------------------------------- splaying (splaytt.rs)
can_splay_step(t, x, p, gp) ==
  ~is_separator(t, gp) \/ (is_separator(t, x) /\ is_separator(t, p))

\* splay_step: rotate x twice if it is a direct separator, else its parent
\* and then x
splay_step(t, x) ==
  IF t.err # "" THEN t
  ELSE IF t.parent[x] = None THEN Fail(t, "unwrap_none")
  ELSE rotate(rotate(t, IF is_direct_separator(t, x) THEN x ELSE t.parent[x]), x)

\* try_splay that takes every target for Root
try_splay_to_root(t, v, target) ==
  LET p == t.parent[v]
      gp == t.parent[p]
      todo == IF t.err # "" \/ p = None THEN <<"nothing", "Done">>
              ELSE IF gp = None THEN <<"rotate", "Done">>
              ELSE IF can_splay_step(t, v, p, gp) THEN <<"splay_step", "Success">>
              ELSE <<"nothing", "Failed">>
  IN [t |-> IF todo[1] = "rotate" THEN rotate(t, v)
            ELSE IF todo[1] = "splay_step" THEN splay_step(t, v)
            ELSE t,
      r |-> todo[2]]

\* GreedySplayStrategy::try_splay: the forest after the attempt and its result
Greedy_try_splay(t, v, target) ==
  LET p == t.parent[v]
      gp == t.parent[p]
      \* what the attempt does (nothing, one rotation, a splay step) and returns
      todo == IF t.err # "" \/ p = None THEN <<"nothing", "Done">>
              ELSE IF gp = None
                   THEN <<IF target = "Root" THEN "rotate" ELSE "nothing", "Done">>
              ELSE IF target = "Root" \/ t.parent[gp] # None
                   THEN IF can_splay_step(t, v, p, gp) THEN <<"splay_step", "Success">>
                        ELSE <<"nothing", "Failed">>
              ELSE <<"rotate", "Done">>
  IN [t |-> IF todo[1] = "rotate" THEN rotate(t, v)
            ELSE IF todo[1] = "splay_step" THEN splay_step(t, v)
            ELSE t,
      r |-> todo[2]]

\* the Failed arm of GreedySplayStrategy::move_to
Greedy_on_failed(t, v, target) ==
  IF t.parent[v] = None THEN Fail(t, "unwrap_none")
  ELSE LET p == t.parent[v]
           after(s) == IF s.r = "Failed"
                       THEN IF s.t.parent[p] = None THEN Fail(s.t, "unwrap_none")
                            ELSE splay_step(s.t, s.t.parent[p])
                       ELSE s.t
       IN after(Greedy_try_splay(t, p, target))

RECURSIVE Greedy_move_to_loop(_, _, _, _)
Greedy_move_to_loop(t, v, target, fuel) ==
  IF t.err # "" THEN t
  ELSE IF fuel = 0 THEN Fail(t, "fuel")
  ELSE LET after(s) ==
             IF s.r = "Success" THEN Greedy_move_to_loop(s.t, v, target, fuel - 1)
             ELSE IF s.r = "Failed"
                  THEN Greedy_move_to_loop(Greedy_on_failed(s.t, v, target), v, target, fuel - 1)
             ELSE s.t
       IN after(Greedy_try_splay(t, v, target))

Greedy_move_to(t, v, target) == Greedy_move_to_loop(t, v, target, Fuel)

RECURSIVE find_next_branching_node_loop(_, _, _)
find_next_branching_node_loop(t, u, fuel) ==
  IF fuel = 0 THEN None
  ELSE IF can_rotate(t, u) THEN find_next_branching_node_loop(t, t.parent[u], fuel - 1)
  ELSE t.parent[u]

\* find_next_branching_node that finds none: the first pass is left out
no_branching_node(t, v) == None

\* TwoPassSplayStrategy::find_next_branching_node and its copy in
\* StableTwoPassSplayStrategy
find_next_branching_node(t, v) == find_next_branching_node_loop(t, v, Fuel)

\* branching_step that leaves the tree as it is
branching_step_skipped(t, v, target) == t

\* TwoPassSplayStrategy::branching_step (and LocalTwoPassSplayStrategy's):
\* one rotation if only the grandparent is a separator or if the splay step
\* would pass the target, else a splay step
TwoPass_branching_step(t, v, target) ==
  IF t.err # "" THEN t
  ELSE IF ~is_separator(t, v) THEN Fail(t, "branching_step_not_separator")
  ELSE IF t.parent[t.parent[v]] = None THEN Fail(t, "unwrap_none")
  ELSE LET p == t.parent[v]
           gp == t.parent[p]
       IN IF \/ ~is_separator(t, p) /\ is_separator(t, gp)
             \/ t.parent[gp] = None /\ target = "BelowRoot"
          THEN rotate(t, v)
          ELSE splay_step(t, v)

\* StableTwoPassSplayStrategy::branching_step and
\* StableLocalTwoPassSplayStrategy::branching_step (the same code twice)
Stable_branching_step(t, v) ==
  IF t.err # "" THEN t
  ELSE IF ~is_separator(t, v) THEN Fail(t, "branching_step_not_separator")
  ELSE IF t.parent[t.parent[v]] = None THEN Fail(t, "unwrap_none")
  ELSE LET p == t.parent[v]
           gp == t.parent[p]
       IN IF ~is_separator(t, p) /\ is_separator(t, gp) THEN rotate(t, v)
          ELSE splay_step(t, v)

RECURSIVE TwoPass_clean_loop(_, _, _, _)
\* first pass of TwoPassSplayStrategy::move_to: remove the branching nodes
TwoPass_clean_loop(t, b_opt, target, fuel) ==
  IF t.err # "" THEN t
  ELSE IF b_opt = None THEN t
  ELSE IF fuel = 0 THEN Fail(t, "fuel")
  ELSE LET after(t1) ==
             IF t1.err # "" THEN t1
             ELSE TwoPass_clean_loop(
                    t1,
                    IF ~is_separator(t1, b_opt) THEN find_next_branching_node(t1, b_opt)
                    ELSE b_opt,
                    target, fuel - 1)
       IN after(TwoPass_branching_step(t, b_opt, target))

RECURSIVE TwoPass_splay_loop(_, _, _, _)
\* second pass of TwoPassSplayStrategy::move_to: splay v to the target
TwoPass_splay_loop(t, v, target, fuel) ==
  IF t.err # "" THEN t
  ELSE IF t.parent[v] = None THEN t
  ELSE IF t.parent[t.parent[v]] = None /\ target # "Root" THEN t
  ELSE IF /\ t.parent[t.parent[v]] # None
          /\ (target = "Root" \/ t.parent[t.parent[t.parent[v]]] # None)
       THEN IF fuel = 0 THEN Fail(t, "fuel")
            ELSE TwoPass_splay_loop(splay_step(t, v), v, target, fuel - 1)
  ELSE rotate(t, v)

TwoPass_move_to(t, v, target) ==
  TwoPass_splay_loop(
    TwoPass_clean_loop(t, find_next_branching_node(t, v), target, Fuel),
    v, target, Fuel)

RECURSIVE StableTwoPass_clean_loop(_, _, _)
StableTwoPass_clean_loop(t, b_opt, fuel) ==
  IF t.err # "" THEN t
  ELSE IF b_opt = None THEN t
  ELSE IF fuel = 0 THEN Fail(t, "fuel")
  ELSE LET after(t1) ==
             IF t1.err # "" THEN t1
             ELSE StableTwoPass_clean_loop(
                    t1,
                    IF ~is_separator(t1, b_opt) THEN find_next_branching_node(t1, b_opt)
                    ELSE b_opt,
                    fuel - 1)
       IN after(Stable_branching_step(t, b_opt))

\* the second pass without the closing single rotation
splay_loop_without_zig(t, v, fuel) ==
  IF t.parent[v] # None /\ t.parent[t.parent[v]] # None THEN splay_step(t, v) ELSE t

RECURSIVE StableTwoPass_splay_loop(_, _, _)
StableTwoPass_splay_loop(t, v, fuel) ==
  IF t.err # "" THEN t
  ELSE IF t.parent[v] = None THEN t
  ELSE IF t.parent[t.parent[v]] # None
       THEN IF fuel = 0 THEN Fail(t, "fuel")
            ELSE StableTwoPass_splay_loop(splay_step(t, v), v, fuel - 1)
  ELSE rotate(t, v)

StableTwoPass_node_to_root(t, v) ==
  StableTwoPass_splay_loop(
    StableTwoPass_clean_loop(t, find_next_branching_node(t, v), Fuel), v, Fuel)

\* one pass through the loop body of LocalTwoPassSplayStrategy::move_to when
\* v has a grandparent g and may be moved two levels up: splay at v if that
\* is possible, else at p if p is a separator, else a branching step at g
LocalTwoPass_step(t, v, p, gp, target) ==
  IF ~can_splay_step(t, v, p, gp) /\ ~is_separator(t, gp)
  THEN Fail(t, "local_g_not_separator")
  ELSE IF can_splay_step(t, v, p, gp) \/ is_separator(t, p)
  THEN splay_step(t, IF can_splay_step(t, v, p, gp) THEN v ELSE p)
  ELSE TwoPass_branching_step(t, gp, target)

RECURSIVE LocalTwoPass_move_to_loop(_, _, _, _)
LocalTwoPass_move_to_loop(t, v, target, fuel) ==
  IF t.err # "" THEN t
  ELSE IF t.parent[v] = None THEN t
  ELSE IF t.parent[t.parent[v]] = None /\ target # "Root" THEN t
  ELSE IF /\ t.parent[t.parent[v]] # None
          /\ (target = "Root" \/ t.parent[t.parent[t.parent[v]]] # None)
       THEN IF fuel = 0 THEN Fail(t, "fuel")
            ELSE LocalTwoPass_move_to_loop(
                   LocalTwoPass_step(t, v, t.parent[v], t.parent[t.parent[v]], target),
                   v, target, fuel - 1)
  ELSE rotate(t, v)

LocalTwoPass_move_to(t, v, target) == LocalTwoPass_move_to_loop(t, v, target, Fuel)

StableLocalTwoPass_step(t, v, p, gp) ==
  IF ~can_splay_step(t, v, p, gp) /\ ~is_separator(t, gp)
  THEN Fail(t, "local_g_not_separator")
  ELSE IF can_splay_step(t, v, p, gp) \/ is_separator(t, p)
  THEN splay_step(t, IF can_splay_step(t, v, p, gp) THEN v ELSE p)
  ELSE Stable_branching_step(t, gp)

RECURSIVE StableLocalTwoPass_loop(_, _, _)
StableLocalTwoPass_loop(t, v, fuel) ==
  IF t.err # "" THEN t
  ELSE IF t.parent[v] = None THEN t
  ELSE IF t.parent[t.parent[v]] # None
       THEN IF fuel = 0 THEN Fail(t, "fuel")
            ELSE StableLocalTwoPass_loop(
                   StableLocalTwoPass_step(t, v, t.parent[v], t.parent[t.parent[v]]),
                   v, fuel - 1)
  ELSE rotate(t, v)

StableLocalTwoPass_node_to_root(t, v) == StableLocalTwoPass_loop(t, v, Fuel)

\* ------------------------------------- strategy dispatch (trait objects)
ExtendedStrategies == {"MoveToRoot", "GreedySplay", "TwoPassSplay", "LocalTwoPassSplay"}
StableStrategies == {"MoveToRoot", "GreedySplay", "StableTwoPassSplay", "StableLocalTwoPassSplay"}

\* the debug_assert closing every node_to_root
at_root(t, v) == IF t.err = "" /\ t.parent[v] # None THEN Fail(t, "node_to_root_post") ELSE t

\* the debug_assert closing every node_below_root
below_root(t, v) ==
  IF t.err = "" /\ (t.parent[v] = None \/ t.parent[t.parent[v]] # None)
  THEN Fail(t, "node_below_root_post") ELSE t

\* ExtendedNTRStrategy::node_to_root / StableNTRStrategy::node_to_root
node_to_root(s, t, v) ==
  IF t.err # "" THEN t
  ELSE CASE s = "MoveToRoot" -> at_root(MoveToRoot_node_to_root(t, v), v)
         [] s = "GreedySplay" -> at_root(Greedy_move_to(t, v, "Root"), v)
         [] s = "TwoPassSplay" -> at_root(TwoPass_move_to(t, v, "Root"), v)
         [] s = "LocalTwoPassSplay" -> at_root(LocalTwoPass_move_to(t, v, "Root"), v)
         [] s = "StableTwoPassSplay" -> StableTwoPass_node_to_root(t, v)
         [] s = "StableLocalTwoPassSplay" -> StableLocalTwoPass_node_to_root(t, v)

\* ExtendedNTRStrategy::node_below_root
node_below_root(s, t, v) ==
  IF t.err # "" THEN t
  ELSE IF t.parent[v] = None THEN Fail(t, "node_below_root_of_root")
  ELSE below_root(
    CASE s = "MoveToRoot" -> MoveToRoot_node_below_root(t, v)
      [] s = "GreedySplay" -> Greedy_move_to(t, v, "BelowRoot")
      [] s = "TwoPassSplay" -> TwoPass_move_to(t, v, "BelowRoot")
      [] s = "LocalTwoPassSplay" -> LocalTwoPass_move_to(t, v, "BelowRoot"), v)

\* NTRImplementation::edge_to_top: ExtendedNTRImplementation moves u to the
\* root and v below it, StableNTRImplementation v to the root and then u
edge_to_top(i, t, u, v) ==
  LET second(t1) == IF i.ntr = "extended" THEN node_below_root(i.strategy, t1, v)
                    ELSE node_to_root(i.strategy, t1, u)
  IN second(node_to_root(i.strategy, t, IF i.ntr = "extended" THEN u ELSE v))

\* ----------------------------------- StandardDynamicForest (twocut/mod.rs)
\* after_attached and before_detached of both node data types
after_attached(t, v, w) ==
  IF t.err # "" THEN t
  ELSE [t EXCEPT !.pdist[v] = Finite(w), !.gdist[v] = Finite(w)]

\* before_detached that keeps the distance to the parent
detached_pdist_kept(t, v) == t

\* before_detached that moves the distance to the parent into adist
detached_pdist_as_adist(t, v) ==
  IF t.err # "" THEN t
  ELSE [t EXCEPT !.pdist[v] = Infinite, !.gdist[v] = Infinite, !.adist[v] = t.pdist[v]]

before_detached(t, v) ==
  IF t.err # "" THEN t
  ELSE [t EXCEPT !.pdist[v] = Infinite, !.gdist[v] = Infinite]

\* link without the assertion that u has become a root
link_unchecked(i, t, u, v, w) ==
  after_attached(attach(node_to_root(i.strategy, node_to_root(i.strategy, t, u), v), u, v), u, w)

\* StandardDynamicForest::link
STT_link(i, t, u, v, w) ==
  LET attach_to(t1) ==
        IF t1.err # "" THEN t1
        ELSE IF t1.parent[u] # None THEN Fail(t1, "link_same_tree")
        ELSE after_attached(attach(t1, u, v), u, w)
  IN attach_to(node_to_root(i.strategy, node_to_root(i.strategy, t, u), v))

\* cut without the assertion that u has no direct separator child
cut_without_dsep_test(i, t, u, v) ==
  LET detach_from(t1) ==
        IF t1.err # "" THEN t1
        ELSE IF t1.parent[u] # v THEN Fail(t1, "cut_not_child")
        ELSE detach(before_detached(t1, u), u)
  IN detach_from(edge_to_top(i, t, v, u))

\* StandardDynamicForest::cut
STT_cut(i, t, u, v) ==
  LET detach_from(t1) ==
        IF t1.err # "" THEN t1
        ELSE IF t1.dsep[u] # None THEN Fail(t1, "cut_no_edge")
        ELSE IF t1.parent[u] # v THEN Fail(t1, "cut_not_child")
        ELSE detach(before_detached(t1, u), u)
  IN detach_from(edge_to_top(i, t, v, u))

\* a query's outcome: the forest it leaves, and the Option<TWeight> it
\* returns under the monoid data (m) and under the group data (gw)
NoAnswer(t) == [t |-> t, m |-> NoneW, gw |-> NoneW]

\* PathWeightNodeData::get_parent_path_weight of u as the answer
parent_path_weight(t, u) ==
  IF t.pdist[u] = Infinite \/ t.gdist[u] = Infinite
  THEN NoAnswer(Fail(t, "unwrap_infinite"))
  ELSE [t |-> t, m |-> SomeW(t.pdist[u][1]), gw |-> SomeW(t.gdist[u][1])]

\* NodesToTopPWImpl::compute_path_weight
NodesToTop_compute_path_weight(s, t, u, v) ==
  LET answer(t2) ==
        IF t2.err = "" /\ t2.parent[u] = v THEN parent_path_weight(t2, u)
        ELSE NoAnswer(t2)
      below(t1) ==
        IF t1.err # "" \/ t1.parent[u] = None THEN NoAnswer(t1)
        ELSE answer(node_below_root(s, t1, u))
  IN below(node_to_root(s, t, v))

RECURSIVE root_path_weight(_, _, _, _, _)
\* the summing loop of StableNodesToTopPWImpl::compute_path_weight: the node
\* reached and the weights summed from x up to the root
root_path_weight(t, x, m, gw, fuel) ==
  IF t.parent[x] = None THEN [x |-> x, m |-> m, gw |-> gw, err |-> ""]
  ELSE IF fuel = 0 THEN [x |-> x, m |-> m, gw |-> gw, err |-> "fuel"]
  ELSE IF is_separator(t, t.parent[x]) THEN [x |-> x, m |-> m, gw |-> gw, err |-> "path_not_1_cut"]
  ELSE IF t.pdist[x] = Infinite \/ t.gdist[x] = Infinite
       THEN [x |-> x, m |-> m, gw |-> gw, err |-> "unwrap_infinite"]
  ELSE root_path_weight(t, t.parent[x], Monoid_add(m, t.pdist[x][1]), gw + t.gdist[x][1], fuel - 1)

\* StableNodesToTopPWImpl::compute_path_weight
StableNodesToTop_compute_path_weight(s, t, u, v) ==
  LET answer(t1, r) ==
        IF r.err # "" THEN NoAnswer(Fail(t1, r.err))
        ELSE IF r.x = v THEN [t |-> t1, m |-> SomeW(r.m), gw |-> SomeW(r.gw)]
        ELSE NoAnswer(t1)
      sum(t1) ==
        IF t1.err # "" THEN NoAnswer(t1)
        ELSE answer(t1, root_path_weight(t1, u, 0, 0, NumNodes))
  IN sum(node_to_root(s, node_to_root(s, t, u), v))

STT_compute_path_weight(i, t, u, v) ==
  IF i.ntr = "extended" THEN NodesToTop_compute_path_weight(i.strategy, t, u, v)
  ELSE StableNodesToTop_compute_path_weight(i.strategy, t, u, v)

\* StandardDynamicForest::get_edge_weight
STT_get_edge_weight(i, t, u, v) ==
  LET answer(t1) ==
        IF t1.err = "" /\ t1.parent[u] = v /\ t1.dsep[u] = None
        THEN parent_path_weight(t1, u)
        ELSE NoAnswer(t1)
  IN answer(edge_to_top(i, t, v, u))

\* the inner loop of make_1_cut cut down to one rotation
make_1_cut_node_once(t, v, fuel) ==
  IF is_separator(t, v) THEN rotate(t, v) ELSE t

RECURSIVE make_1_cut_node(_, _, _)
\* the inner loop of make_1_cut: rotate v while it is a separator
make_1_cut_node(t, v, fuel) ==
  IF t.err # "" THEN t
  ELSE IF ~is_separator(t, v) THEN t
  ELSE IF fuel = 0 THEN Fail(t, "fuel")
  ELSE make_1_cut_node(rotate(t, v), v, fuel - 1)

RECURSIVE make_1_cut_from(_, _)
make_1_cut_from(t, v) ==
  IF v = NumNodes THEN t ELSE make_1_cut_from(make_1_cut_node(t, v, Fuel), v + 1)

\* the clone as it is, not brought into 1-cut form
clone_as_is(t) == t

\* basic::make_1_cut: the nodes are visited in index order
make_1_cut(t) == make_1_cut_from(t, 0)

\* STT::_is_valid: the separator children of a node are children of it
STT_is_valid(t) ==
  \A v \in Nodes :
    /\ t.dsep[v] # None => t.parent[t.dsep[v]] = v
    /\ t.isep[v] # None => t.parent[t.isep[v]] = v

\* STT::edges: the (parent, child) pairs; the model keeps them unordered
STT_parent_edges(t) == {{t.parent[v], v} : v \in {x \in Nodes : t.parent[x] # None}}

\* StandardDynamicForest::edges: make a clone 1-cut and list its edges
STT_edges(t) == STT_parent_edges(make_1_cut(t))

\* ------------------------------------------ link-cut forest (link_cut.rs)
\* LinkCutForest::new; impl_evert is the const generic IMPL_EVERT.  The
\* weighted forest carries MonoidPathWeightLCTNodeData (pdist, adist) and
\* GroupPathWeightLCTNodeData (gdist) side by side.
LC_new_weighted ==
  [kind |-> "weighted", impl_evert |-> TRUE,
   parent |-> NoNode, left |-> NoNode, right |-> NoNode,
   reversed |-> [x \in Nodes |-> FALSE],
   pdist |-> NoWeight, adist |-> NoWeight, gdist |-> NoWeight, err |-> ""]

\* LinkCutForest<EmptyNodeData, false>::new
LC_new_rooted ==
  [kind |-> "empty", impl_evert |-> FALSE,
   parent |-> NoNode, left |-> NoNode, right |-> NoNode,
   reversed |-> [x \in Nodes |-> FALSE], err |-> ""]

LC_reverse(t, v) == [t EXCEPT !.reversed[v] = ~t.reversed[v]]

\* push_reverse_bit that exchanges the children of v and flips their bits
\* but leaves the bit of v set
LC_push_keeps_bit(t, v) ==
  IF ~t.impl_evert \/ ~t.reversed[v] THEN t
  ELSE LET reverse_child(a, c) == IF c # None THEN LC_reverse(a, c) ELSE a
       IN reverse_child(
            reverse_child([t EXCEPT !.left[v] = t.right[v], !.right[v] = t.left[v]], t.right[v]),
            t.left[v])

\* LinkCutForest::push_reverse_bit
LC_push_reverse_bit(t, v) ==
  IF ~t.impl_evert \/ ~t.reversed[v] THEN t
  ELSE LET reverse_child(a, c) == IF c # None THEN LC_reverse(a, c) ELSE a
       IN reverse_child(
            reverse_child(
              [t EXCEPT !.reversed[v] = FALSE, !.left[v] = t.right[v], !.right[v] = t.left[v]],
              t.right[v]),
            t.left[v])

is_non_middle_child_hint(t, v, p) == t.left[p] = v \/ t.right[p] = v

is_non_middle_child(t, v) ==
  IF t.parent[v] # None THEN is_non_middle_child_hint(t, v, t.parent[v]) ELSE FALSE

\* is_left_child and is_right_child; both assert that the parent's reverse
\* bit is clear, which child_test_ok states
is_left_child(t, v) == IF t.parent[v] # None THEN t.left[t.parent[v]] = v ELSE FALSE

is_right_child(t, v) == IF t.parent[v] # None THEN t.right[t.parent[v]] = v ELSE FALSE

child_test_ok(t, v) == t.parent[v] = None \/ ~t.reversed[t.parent[v]]

\* group weights under WeightOrInfinity: + and - (SignedAddGroupWeight)
WGAdd(a, b) == IF a # Infinite /\ b # Infinite THEN Finite(a[1] + b[1]) ELSE Infinite
WGSub(a, w) == IF a # Infinite THEN Finite(a[1] - w) ELSE Infinite

\* the reverse bits both before_rotation implementations push first
LC_push_for_rotation(t, v) ==
  LET p == t.parent[v]
  IN LC_push_reverse_bit(
       LC_push_reverse_bit(
         IF t.parent[p] # None THEN LC_push_reverse_bit(t, t.parent[p]) ELSE t,
         p),
       v)

\* MonoidPathWeightLCTNodeData::before_rotation, after the pushes
LC_Monoid_before_rotation(t, v) ==
  LET p == t.parent[v]
      c == IF is_left_child(t, v) THEN t.right[v] ELSE t.left[v]
      \* v is between p and g in the underlying tree
      between == (t.left[p] = v) # is_left_child(t, p)
      swapped(a) ==
        IF between
        THEN [a EXCEPT !.pdist[p] = a.pdist[v],
                       !.pdist[v] = a.adist[v],
                       !.adist[v] = WAdd(a.pdist[v], a.adist[p])]
        ELSE [a EXCEPT !.pdist[p] = a.pdist[v],
                       !.pdist[v] = WAdd(a.pdist[v], a.pdist[p]),
                       !.adist[p] = a.pdist[p]]
  IN IF t.err # "" THEN t
     ELSE IF ~child_test_ok(t, v) \/ ~child_test_ok(t, p) THEN Fail(t, "child_of_reversed")
     ELSE IF ~is_non_middle_child(t, v) THEN Fail(t, "rotate_middle_child")
     ELSE swapped(IF c # None THEN [t EXCEPT !.pdist[c] = t.adist[c], !.adist[c] = t.pdist[c]]
                  ELSE t)

\* the link-cut forest with the group path weights left as they were
LC_Group_weights_kept(t, v) == t

\* GroupPathWeightLCTNodeData::before_rotation, after the pushes
LC_Group_before_rotation(t, v) ==
  LET p == t.parent[v]
      c == IF is_left_child(t, v) THEN t.right[v] ELSE t.left[v]
      dist_v_p == t.gdist[v]
      dist_p_g == t.gdist[p]
      between == (t.left[p] = v) # is_left_child(t, p)
      with_c == IF c # None THEN [t EXCEPT !.gdist[c] = WGSub(dist_v_p, WVal(t.gdist[c]))]
                ELSE t
  IN IF t.err # "" THEN t
     ELSE IF ~child_test_ok(t, v) \/ ~child_test_ok(t, p) THEN Fail(t, "child_of_reversed")
     ELSE IF (c # None /\ t.gdist[c] = Infinite) \/ (between /\ dist_v_p = Infinite)
     THEN Fail(t, "unwrap_infinite")
     ELSE IF ~is_non_middle_child(t, v) THEN Fail(t, "rotate_middle_child")
     ELSE [with_c EXCEPT
             !.gdist[p] = dist_v_p,
             !.gdist[v] = IF between THEN WGSub(dist_p_g, WVal(dist_v_p))
                          ELSE WGAdd(dist_v_p, dist_p_g)]

\* LCTNodeData::before_rotation
LC_before_rotation(t, v) ==
  IF t.kind = "weighted"
  THEN LC_Group_before_rotation(LC_Monoid_before_rotation(LC_push_for_rotation(t, v), v), v)
  ELSE t

\* LinkCutForest::rotate
LC_rotate(t, v) ==
  IF t.err # "" THEN t
  ELSE IF t.parent[v] = None THEN Fail(t, "unwrap_none")
  ELSE
  LET p == t.parent[v]
      g_opt == t.parent[p]
      \* update parent of v
      to_grandparent(a) ==
        IF g_opt # None THEN LC_push_reverse_bit([a EXCEPT !.parent[v] = g_opt], g_opt)
        ELSE [a EXCEPT !.parent[v] = None]
      replace_child(a) ==
        IF g_opt # None /\ a.left[g_opt] = p THEN [a EXCEPT !.left[g_opt] = v]
        ELSE IF g_opt # None /\ a.right[g_opt] = p THEN [a EXCEPT !.right[g_opt] = v]
        ELSE a
      \* update parents of p and (possibly) c
      to_child(a) ==
        IF a.left[p] = v
        THEN IF a.right[v] # None
             THEN [a EXCEPT !.parent[p] = v, !.parent[a.right[v]] = p,
                            !.left[p] = a.right[v], !.right[v] = p]
             ELSE [a EXCEPT !.parent[p] = v, !.left[p] = None, !.right[v] = p]
        ELSE IF a.right[p] # v THEN Fail([a EXCEPT !.parent[p] = v], "rotate_not_right_child")
        ELSE IF a.left[v] # None
             THEN [a EXCEPT !.parent[p] = v, !.parent[a.left[v]] = p,
                            !.right[p] = a.left[v], !.left[v] = p]
             ELSE [a EXCEPT !.parent[p] = v, !.right[p] = None, !.left[v] = p]
      rotated(a) ==
        IF a.err # "" THEN a
        ELSE IF ~is_non_middle_child_hint(a, v, p) THEN Fail(a, "rotate_middle_child")
        ELSE to_child(
               LC_push_reverse_bit(LC_push_reverse_bit(replace_child(to_grandparent(a)), p), v))
  IN rotated(LC_before_rotation(t, v))

\* one pass through the loop of splay_solid when v is a left or right child:
\* two rotations if the parent p is a left or right child too (at p first if
\* v and p are children of the same side, else at v), one rotation otherwise
LC_splay_step(t, v) ==
  LET p == t.parent[v]
      gp == t.parent[p]
      step(a, double) ==
        IF double /\ a.left[p] # v /\ a.right[p] # v THEN a
        ELSE IF double /\ a.left[p] = v /\ a.left[gp] # p /\ ~is_right_child(a, p)
        THEN Fail(a, "splay_not_right_child")
        ELSE IF double /\ a.left[p] # v /\ a.right[gp] # p /\ ~is_left_child(a, p)
        THEN Fail(a, "splay_not_left_child")
        ELSE LC_rotate(
               IF double
               THEN LC_rotate(a, IF \/ a.left[p] = v /\ a.left[gp] = p
                                    \/ a.left[p] # v /\ a.right[gp] = p
                                 THEN p ELSE v)
               ELSE a,
               v)
  IN IF gp # None /\ is_non_middle_child_hint(t, p, gp)
     THEN step(LC_push_reverse_bit(LC_push_reverse_bit(t, gp), p), TRUE)
     ELSE step(t, FALSE)

RECURSIVE LC_splay_solid_loop(_, _, _)
\* LinkCutForest::splay_solid: the forest after it and the parent returned
LC_splay_solid_loop(t, v, fuel) ==
  IF t.err # "" THEN [t |-> t, p |-> None]
  ELSE IF t.parent[v] = None THEN [t |-> t, p |-> None]
  ELSE IF ~is_non_middle_child_hint(t, v, t.parent[v]) THEN [t |-> t, p |-> t.parent[v]]
  ELSE IF fuel = 0 THEN [t |-> Fail(t, "fuel"), p |-> None]
  ELSE LC_splay_solid_loop(LC_splay_step(t, v), v, fuel - 1)

splay_solid(t, v) == LC_splay_solid_loop(t, v, Fuel)

\* LinkCutForest::try_splice (before_splice asserts only in the monoid data)
try_splice(t, v) ==
  IF t.err # "" \/ t.parent[v] = None THEN [t |-> t, p |-> None]
  ELSE LET p == t.parent[v]
           spliced(t1) ==
             IF t1.kind = "weighted" /\ is_non_middle_child(t1, p)
             THEN [t |-> Fail(t1, "splice_below_solid_child"), p |-> None]
             ELSE [t |-> [t1 EXCEPT !.right[p] = v], p |-> p]
       IN spliced(LC_push_reverse_bit(t, p))

RECURSIVE LC_splay_chain(_, _, _)
\* first loop of node_to_root: splay in every solid subtree on the way up
LC_splay_chain(t, x_opt, fuel) ==
  IF t.err # "" \/ x_opt = None THEN t
  ELSE IF fuel = 0 THEN Fail(t, "fuel")
  ELSE LET next(s) == LC_splay_chain(s.t, s.p, fuel - 1)
       IN next(splay_solid(t, x_opt))

RECURSIVE LC_splice_chain(_, _, _)
\* second loop of node_to_root: splice all the way up
LC_splice_chain(t, x_opt, fuel) ==
  IF t.err # "" \/ x_opt = None THEN t
  ELSE IF fuel = 0 THEN Fail(t, "fuel")
  ELSE LET next(s) == LC_splice_chain(s.t, s.p, fuel - 1)
       IN next(try_splice(t, x_opt))

\* LinkCutForest::node_to_root
LC_node_to_root(t, v) ==
  LET at_top(t1) ==
        IF t1.err = "" /\ t1.parent[v] # None THEN Fail(t1, "node_to_root_post") ELSE t1
  IN at_top(splay_solid(LC_splice_chain(LC_splay_chain(t, v, Fuel), v, Fuel), v).t)

\* LinkCutForest::evert
evert(t, v) ==
  LET without_left(t1) ==
        IF t1.err = "" /\ t1.left[v] # None
        THEN [LC_reverse(t1, t1.left[v]) EXCEPT !.left[v] = None]
        ELSE t1
  IN without_left(LC_node_to_root(t, v))

\* DynamicForest::link of LinkCutForest
LC_link(t, u, v, w) ==
  LET attached(t1) ==
        IF t1.err # "" THEN t1
        ELSE IF t1.parent[v] # None THEN Fail(t1, "link_same_tree")
        ELSE [t1 EXCEPT !.parent[u] = v, !.pdist[u] = Finite(w), !.gdist[u] = Finite(w)]
  IN attached(evert(LC_node_to_root(LC_node_to_root(t, u), v), u))

\* cut that brings v to the root first and u last
LC_cut_root_first(t, u, v) ==
  LET detached(t1) ==
        IF t1.err # "" THEN t1
        ELSE IF t1.parent[u] = None THEN Fail(t1, "cut_different_trees")
        ELSE IF t1.parent[u] # v THEN Fail(t1, "cut_not_child")
        ELSE [t1 EXCEPT !.pdist[u] = Infinite, !.gdist[u] = Infinite, !.parent[u] = None,
                        !.left[v] = IF t1.left[v] = u THEN None ELSE t1.left[v],
                        !.right[v] = IF t1.left[v] # u /\ t1.right[v] = u THEN None
                                     ELSE t1.right[v]]
  IN detached(LC_node_to_root(LC_node_to_root(t, v), u))

\* DynamicForest::cut of LinkCutForest
LC_cut(t, u, v) ==
  LET detached(t1) ==
        IF t1.err # "" THEN t1
        ELSE IF t1.parent[u] = None THEN Fail(t1, "cut_different_trees")
        ELSE IF t1.parent[u] # v THEN Fail(t1, "cut_not_child")
        ELSE [t1 EXCEPT !.pdist[u] = Infinite, !.gdist[u] = Infinite, !.parent[u] = None,
                        !.left[v] = IF t1.left[v] = u THEN None ELSE t1.left[v],
                        !.right[v] = IF t1.left[v] # u /\ t1.right[v] = u THEN None
                                     ELSE t1.right[v]]
  IN detached(LC_node_to_root(LC_node_to_root(t, u), v))

RECURSIVE LC_root_path_weight(_, _, _, _, _)
\* the summing loop of LinkCutForest::compute_path_weight
LC_root_path_weight(t, x, m, gw, fuel) ==
  IF t.parent[x] = None THEN [x |-> x, m |-> m, gw |-> gw, err |-> ""]
  ELSE IF fuel = 0 THEN [x |-> x, m |-> m, gw |-> gw, err |-> "fuel"]
  ELSE IF t.pdist[x] = Infinite \/ t.gdist[x] = Infinite
       THEN [x |-> x, m |-> m, gw |-> gw, err |-> "unwrap_infinite"]
  ELSE LC_root_path_weight(t, t.parent[x], Monoid_add(m, t.pdist[x][1]),
                           gw + t.gdist[x][1], fuel - 1)

\* DynamicForest::compute_path_weight of LinkCutForest
LC_compute_path_weight(t, u, v) ==
  LET answer(t1, r) ==
        IF r.err # "" THEN NoAnswer(Fail(t1, r.err))
        ELSE IF r.x = v THEN [t |-> t1, m |-> SomeW(r.m), gw |-> SomeW(r.gw)]
        ELSE NoAnswer(t1)
      sum(t1) ==
        IF t1.err # "" THEN NoAnswer(t1)
        ELSE answer(t1, LC_root_path_weight(t1, u, 0, 0, NumNodes))
  IN sum(LC_node_to_root(LC_node_to_root(t, u), v))

RECURSIVE LC_solid_root(_, _, _)
\* the root of the solid subtree holding v
LC_solid_root(t, v, fuel) ==
  IF fuel > 0 /\ is_non_middle_child(t, v) THEN LC_solid_root(t, t.parent[v], fuel - 1) ELSE v

RECURSIVE subtree_remove_reverse_bit(_, _, _)
subtree_remove_reverse_bit(t, v, fuel) ==
  IF ~t.impl_evert THEN t
  ELSE IF fuel = 0 THEN Fail(t, "fuel")
  ELSE LET right_of(t2) ==
             IF t2.right[v] # None
             THEN subtree_remove_reverse_bit(t2, t2.right[v], fuel - 1) ELSE t2
           left_of(t1) ==
             right_of(IF t1.left[v] # None
                      THEN subtree_remove_reverse_bit(t1, t1.left[v], fuel - 1) ELSE t1)
       IN left_of(LC_push_reverse_bit(t, v))

RECURSIVE LC_clear_reversed_from(_, _)
\* first loop of make_one_cut, from node v on in index order
LC_clear_reversed_from(t, v) ==
  IF v = NumNodes THEN t
  ELSE LC_clear_reversed_from(
         IF t.reversed[v]
         THEN subtree_remove_reverse_bit(t, LC_solid_root(t, v, NumNodes), NumNodes)
         ELSE t,
         v + 1)

RECURSIVE LC_right_spine(_, _, _, _)
\* the innermost loop of make_one_cut: the forest and the nodes seen
LC_right_spine(t, x_opt, seen, fuel) ==
  IF t.err # "" \/ x_opt = None THEN [t |-> t, seen |-> seen]
  ELSE IF fuel = 0 THEN [t |-> Fail(t, "fuel"), seen |-> seen]
  ELSE IF t.left[x_opt] # None
       THEN LC_right_spine(LC_rotate(t, t.left[x_opt]), t.left[x_opt], seen, fuel - 1)
       ELSE LC_right_spine(t, t.right[x_opt], seen \cup {x_opt}, fuel - 1)

RECURSIVE LC_spines_from(_, _, _)
\* second loop of make_one_cut, from node v on in index order
LC_spines_from(t, v, seen) ==
  IF v = NumNodes THEN t
  ELSE IF v \in seen THEN LC_spines_from(t, v + 1, seen)
  ELSE LET next(s) == LC_spines_from(s.t, v + 1, s.seen)
       IN next(LC_right_spine(t, LC_solid_root(t, v, NumNodes), seen, Fuel))

\* LinkCutForest::make_one_cut
make_one_cut(t) == LC_spines_from(LC_clear_reversed_from(t, 0), 0, {})

\* DynamicForest::edges of LinkCutForest, as unordered pairs
LC_edges(t) ==
  LET parent_edges(t1) == {{v, t1.parent[v]} : v \in {x \in Nodes : t1.parent[x] # None}}
  IN parent_edges(make_one_cut(t))

\* ---------------------------------------- SimpleDynamicTree (onecut.rs)
\* SimpleDynamicTree::new, with the weights of both weight types side by side
OC_new == [kind |-> "onecut", parent |-> NoNode, pdist |-> NoWeight, gdist |-> NoWeight,
           err |-> ""]

OC_rotate(t, v) ==
  IF t.err # "" THEN t
  ELSE IF t.parent[v] = None THEN Fail(t, "unwrap_none")
  ELSE IF t.parent[t.parent[v]] # None THEN Fail(t, "rotate_not_below_root")
  ELSE LET p == t.parent[v]
       IN [t EXCEPT !.parent[p] = v, !.pdist[p] = t.pdist[v], !.gdist[p] = t.gdist[v],
                    !.parent[v] = None, !.pdist[v] = Infinite, !.gdist[v] = Infinite]

RECURSIVE OC_move_to_root(_, _, _)
OC_move_to_root(t, v, fuel) ==
  IF t.err # "" \/ t.parent[v] = None THEN t
  ELSE IF fuel = 0 THEN Fail(t, "fuel")
  ELSE OC_rotate(OC_move_to_root(t, t.parent[v], fuel - 1), v)

OC_link(t, u, v, w) ==
  LET attached(t1) ==
        IF t1.err # "" THEN t1
        ELSE [t1 EXCEPT !.parent[u] = v, !.pdist[u] = Finite(w), !.gdist[u] = Finite(w)]
  IN attached(OC_move_to_root(t, u, NumNodes))

OC_cut(t, u, v) ==
  IF t.parent[u] = v
  THEN [t EXCEPT !.parent[u] = None, !.pdist[u] = Infinite, !.gdist[u] = Infinite]
  ELSE IF t.parent[v] # u THEN Fail(t, "cut_no_edge")
  ELSE [t EXCEPT !.parent[v] = None, !.pdist[v] = Infinite, !.gdist[v] = Infinite]

RECURSIVE OC_root_path_weight(_, _, _, _, _)
OC_root_path_weight(t, x, m, gw, fuel) ==
  IF t.parent[x] = None THEN [x |-> x, m |-> m, gw |-> gw, err |-> ""]
  ELSE IF fuel = 0 THEN [x |-> x, m |-> m, gw |-> gw, err |-> "fuel"]
  ELSE IF t.pdist[x] = Infinite \/ t.gdist[x] = Infinite
       THEN [x |-> x, m |-> m, gw |-> gw, err |-> "panic"]
  ELSE OC_root_path_weight(t, t.parent[x], Monoid_add(m, t.pdist[x][1]),
                           gw + t.gdist[x][1], fuel - 1)

OC_compute_path_weight(t, u, v) ==
  LET answer(t1, r) ==
        IF r.err # "" THEN NoAnswer(Fail(t1, r.err))
        ELSE IF r.x = u THEN [t |-> t1, m |-> SomeW(r.m), gw |-> SomeW(r.gw)]
        ELSE NoAnswer(t1)
      sum(t1) ==
        IF t1.err # "" THEN NoAnswer(t1)
        ELSE answer(t1, OC_root_path_weight(t1, v, 0, 0, NumNodes))
  IN sum(OC_move_to_root(t, u, NumNodes))

OC_edges(t) == {{v, t.parent[v]} : v \in {x \in Nodes : t.parent[x] # None}}

\* ---------------------------------- rooted STT forests (twocut/rooted.rs)
\* An answer of a rooted query: the forest it leaves and the node returned
\* (None for Option::None).
Answer(t, r) == [t |-> t, r |-> r]

\* BasicRootedDynamicForest::find_root
Rooted_find_root(i, t, v) ==
  LET root_of(t1) ==
        IF t1.err # "" THEN Answer(t1, None)
        ELSE IF t1.desc_root[v] = None THEN Answer(Fail(t1, "unwrap_none"), None)
        ELSE Answer(t1, t1.desc_root[v])
  IN root_of(node_to_root(i.strategy, t, v))

\* BasicRootedDynamicForest::link
Rooted_link(i, t, u, v) ==
  LET attached(t1) ==
        IF t1.err # "" THEN t1
        ELSE IF t1.parent[u] # None THEN Fail(t1, "link_same_tree")
        ELSE IF t1.desc_root[u] # u THEN Fail(t1, "link_non_root")
        ELSE [attach(t1, u, v) EXCEPT !.desc_root[u] = None]
  IN attached(node_to_root(i.strategy, node_to_root(i.strategy, t, u), v))

RECURSIVE clear_desc_root_path(_, _, _)
\* the loop of make_root: delete the references to the old root on the way up
clear_desc_root_path(t, x, fuel) ==
  IF t.parent[x] = None \/ fuel = 0 THEN Answer(t, x)
  ELSE clear_desc_root_path([t EXCEPT !.desc_root[x] = None], t.parent[x], fuel - 1)

\* BasicRootedDynamicForest::make_root
Rooted_make_root(i, t, v) ==
  LET new_root(s, r) ==
        IF s.r # v THEN Fail(s.t, "make_root_path")
        ELSE node_to_root(i.strategy, [s.t EXCEPT !.desc_root[v] = v], r)
      old_root(t1) ==
        IF t1.err # "" THEN t1
        ELSE IF t1.desc_root[v] = None THEN Fail(t1, "unwrap_none")
        ELSE new_root(clear_desc_root_path(t1, t1.desc_root[v], NumNodes), t1.desc_root[v])
  IN old_root(node_to_root(i.strategy, t, v))

RECURSIVE lca_in(_, _, _, _)
\* BasicRootedDynamicForest::lca_in
lca_in(i, t, x, fuel) ==
  IF fuel = 0 THEN Answer(Fail(t, "fuel"), None)
  ELSE IF t.dsep[x] # None /\ t.desc_root[t.dsep[x]] # None
       THEN lca_in(i, t, t.dsep[x], fuel - 1)
  ELSE IF t.isep[x] # None /\ t.desc_root[t.isep[x]] # None
       THEN lca_in(i, t, t.isep[x], fuel - 1)
  ELSE Answer(node_to_root(i.strategy, t, x), x)

\* the walk that stops at the direct separator child
isep_spine_not_followed(t, x, fuel) == x

RECURSIVE isep_spine_end(_, _, _)
\* the walk along the indirect separator children, from x down
isep_spine_end(t, x, fuel) ==
  IF t.isep[x] # None /\ fuel > 0 THEN isep_spine_end(t, t.isep[x], fuel - 1) ELSE x

\* the child x itself taken for the underlying parent
child_as_parent(t, x) == x

\* the parent of the STT root v in the underlying tree, found from a child x
\* of v whose subtree holds the underlying root
underlying_parent_from(t, x) ==
  IF t.dsep[x] # None THEN isep_spine_end(t, t.dsep[x], NumNodes) ELSE x

\* StandardRootedDynamicForest::cut
Standard_cut(i, t, v) ==
  LET cut_off(t3, x) ==
        IF t3.err # "" THEN t3
        ELSE IF t3.dsep[x] # None THEN Fail(t3, "cut_separated")
        ELSE [detach(t3, x) EXCEPT !.desc_root[v] = v]
      parent_below(t2, r) ==
        IF t2.err # "" THEN t2
        ELSE cut_off(node_below_root(i.strategy, t2, underlying_parent_from(t2, r)),
                     underlying_parent_from(t2, r))
      root_below(t1) ==
        IF t1.err # "" THEN t1
        ELSE IF t1.desc_root[v] = None THEN Fail(t1, "unwrap_none")
        ELSE IF t1.desc_root[v] = v THEN Fail(t1, "cut_at_root")
        ELSE parent_below(node_below_root(i.strategy, t1, t1.desc_root[v]), t1.desc_root[v])
  IN root_below(node_to_root(i.strategy, t, v))

RECURSIVE child_of_root_above(_, _, _, _)
\* the loop of the stable cut: the child of v that is an ancestor of x
child_of_root_above(t, x, v, fuel) ==
  IF t.parent[x] = v THEN x
  ELSE IF t.parent[x] = None \/ fuel = 0 THEN None
  ELSE child_of_root_above(t, t.parent[x], v, fuel - 1)

\* StableRootedDynamicForest::cut
Stable_cut(i, t, v) ==
  LET cut_off(t3, x) ==
        IF t3.err # "" THEN t3
        ELSE IF t3.dsep[x] # None THEN Fail(t3, "cut_separated")
        ELSE IF t3.parent[v] # x THEN Fail(t3, "cut_not_child")
        ELSE [detach(t3, v) EXCEPT !.desc_root[v] = v]
      parent_to_root(t2, c) ==
        IF c = None THEN Fail(t2, "unwrap_none")
        ELSE cut_off(node_to_root(i.strategy, t2, underlying_parent_from(t2, c)),
                     underlying_parent_from(t2, c))
      child_above(t2, r) ==
        IF t2.err # "" THEN t2
        ELSE IF t2.parent[r] = None THEN Fail(t2, "cut_root_not_below")
        ELSE parent_to_root(t2, child_of_root_above(t2, r, v, NumNodes))
      root_to_root(t1) ==
        IF t1.err # "" THEN t1
        ELSE IF t1.desc_root[v] = None THEN Fail(t1, "unwrap_none")
        ELSE IF t1.desc_root[v] = v THEN Fail(t1, "cut_at_root")
        ELSE child_above(
               node_to_root(i.strategy, node_to_root(i.strategy, t1, t1.desc_root[v]), v),
               t1.desc_root[v])
  IN root_to_root(node_to_root(i.strategy, t, v))

\* StandardRootedDynamicForest::lowest_common_ancestor
Standard_lowest_common_ancestor(i, t, u, v) ==
  LET found(t1) ==
        IF t1.err # "" THEN Answer(t1, None)
        ELSE IF t1.parent[u] # v THEN Answer(t1, None)
        ELSE IF t1.desc_root[u] = None THEN Answer(t1, v)
        ELSE IF t1.dsep[u] # None /\ t1.desc_root[t1.dsep[u]] # None
             THEN lca_in(i, t1, t1.dsep[u], NumNodes)
        ELSE Answer(t1, u)
  IN found(node_below_root(i.strategy, node_to_root(i.strategy, t, v), u))

RECURSIVE lowest_with_root_below(_, _, _)
\* the loop of the stable LCA: the lowest ancestor of x with the underlying
\* root among its descendants
lowest_with_root_below(t, x, fuel) ==
  IF t.parent[x] # None /\ t.desc_root[x] = None /\ fuel > 0
  THEN lowest_with_root_below(t, t.parent[x], fuel - 1)
  ELSE x

\* StableRootedDynamicForest::lowest_common_ancestor
Stable_lowest_common_ancestor(i, t, u, v) ==
  LET found(t1, x) ==
        IF x = v THEN Answer(t1, v)
        ELSE IF t1.dsep[x] # None /\ t1.desc_root[t1.dsep[x]] # None
             THEN lca_in(i, t1, t1.dsep[x], NumNodes)
        ELSE Answer(t1, x)
      climbed(t1) ==
        IF t1.err # "" THEN Answer(t1, None)
        ELSE IF t1.parent[u] = None THEN Answer(t1, None)
        ELSE found(t1, lowest_with_root_below(t1, u, NumNodes))
  IN climbed(node_to_root(i.strategy, node_to_root(i.strategy, t, u), v))

\* LinkCutForest::get_underlying_parent: the forest after the call and the
\* node returned
LC_get_underlying_parent(t, v) ==
  LET returned(t1) == Answer(t1, IF t1.err # "" THEN None ELSE t1.left[v])
  IN returned(LC_node_to_root(t, v))

\* ------------------------- rooted link-cut forest (link_cut.rs, no evert)
LCR_link(t, u, v) ==
  LET attached(t1) ==
        IF t1.err # "" THEN t1
        ELSE IF t1.parent[u] # None THEN Fail(t1, "link_same_tree")
        ELSE [t1 EXCEPT !.parent[u] = v]
  IN attached(LC_node_to_root(LC_node_to_root(t, u), v))

LCR_cut(t, v) ==
  LET cut_off(t1) ==
        IF t1.err # "" THEN t1
        ELSE IF t1.left[v] = None THEN Fail(t1, "unwrap_none")
        ELSE [t1 EXCEPT !.left[v] = None, !.parent[t1.left[v]] = None]
  IN cut_off(LC_node_to_root(t, v))

\* RootedDynamicForest::cut_edge of the link-cut forest without evert
LCR_cut_edge(t, u, v) ==
  LET detached(t1) ==
        IF t1.err # "" THEN t1
        ELSE IF t1.parent[u] = None THEN Fail(t1, "cut_different_trees")
        ELSE IF t1.parent[u] # v THEN Fail(t1, "cut_not_child")
        ELSE [t1 EXCEPT !.parent[u] = None,
                        !.left[v] = IF t1.left[v] = u THEN None ELSE t1.left[v],
                        !.right[v] = IF t1.left[v] # u /\ t1.right[v] = u THEN None
                                     ELSE t1.right[v]]
  IN detached(LC_node_to_root(LC_node_to_root(t, u), v))

RECURSIVE LC_leftmost(_, _, _)
LC_leftmost(t, r, fuel) ==
  IF t.left[r] # None /\ fuel > 0 THEN LC_leftmost(t, t.left[r], fuel - 1) ELSE r

LCR_find_root(t, v) ==
  LET returned(t2, r) == Answer(t2, IF t2.err # "" THEN None ELSE r)
      leftmost(t1, r) == returned(LC_node_to_root(t1, r), r)
      walk(t1) ==
        IF t1.err # "" THEN Answer(t1, None)
        ELSE leftmost(t1, LC_leftmost(t1, v, NumNodes))
  IN walk(LC_node_to_root(t, v))

RECURSIVE LCR_climb(_, _, _, _, _)
\* the loop of the link-cut LCA: the child x of the root u on the way up from
\* v (or the root of v's tree), and the last solid leaf passed
LCR_climb(t, u, x, last_solid_leaf, fuel) ==
  IF t.parent[x] = None \/ fuel = 0 THEN [x |-> x, leaf |-> last_solid_leaf]
  ELSE LET p == t.parent[x]
           leaf == IF ~is_non_middle_child(t, x) THEN p ELSE last_solid_leaf
       IN IF p # u THEN LCR_climb(t, u, p, leaf, fuel - 1)
          ELSE [x |-> x, leaf |-> leaf]

LCR_lowest_common_ancestor(t, u, v) ==
  LET returned(t2, lca) == Answer(t2, IF t2.err # "" THEN None ELSE lca)
      found(t1, s) ==
        IF t1.parent[s.x] = None THEN Answer(t1, None)
        ELSE returned(LC_node_to_root(t1, v), IF is_left_child(t1, s.x) THEN s.leaf ELSE u)
      climbed(t1) ==
        IF t1.err # "" THEN Answer(t1, None)
        ELSE found(t1, LCR_climb(t1, u, v, v, NumNodes))
  IN climbed(LC_node_to_root(t, u))

\* ------------------------------- SimpleRootedForest (rooted.rs), reference
\* The reference forest of the rooted tests is its parent array.
RECURSIVE Simple_find_root_from(_, _, _)
Simple_find_root_from(par, x, fuel) ==
  IF par[x] # None /\ fuel > 0 THEN Simple_find_root_from(par, par[x], fuel - 1) ELSE x

Simple_find_root(par, v) == Simple_find_root_from(par, v, NumNodes)

RECURSIVE Simple_ancestors(_, _, _)
\* u_ancs: x and all its ancestors
Simple_ancestors(par, x, fuel) ==
  IF par[x] # None /\ fuel > 0 THEN {x} \cup Simple_ancestors(par, par[x], fuel - 1) ELSE {x}

RECURSIVE Simple_first_in(_, _, _, _)
\* the second loop of the reference LCA: the first proper ancestor of x in S
Simple_first_in(par, x, S, fuel) ==
  IF par[x] = None \/ fuel = 0 THEN None
  ELSE IF par[x] \in S THEN par[x]
  ELSE Simple_first_in(par, par[x], S, fuel - 1)

Simple_lowest_common_ancestor(par, u, v) ==
  LET u_ancs == Simple_ancestors(par, u, NumNodes)
  IN IF v \in u_ancs THEN v ELSE Simple_first_in(par, v, u_ancs, NumNodes)

RECURSIVE Simple_reverse_path(_, _, _, _)
\* the loop of the reference make_root: turn the parent pointers from y up
Simple_reverse_path(par, x, y, fuel) ==
  IF par[y] = None \/ fuel = 0 THEN [par EXCEPT ![y] = x]
  ELSE Simple_reverse_path([par EXCEPT ![y] = x], y, par[y], fuel - 1)

Simple_make_root(par, v) ==
  IF par[v] = None THEN par
  ELSE Simple_reverse_path([par EXCEPT ![v] = None], v, par[v], NumNodes)

\* ------------------------------------------------- the reference forest
\* The tests keep the edges linked so far, with their weights, and answer the
\* queries from them; g is that edge list: a set of [e |-> {u, v}, w |-> weight].
RefEdges(gr) == {x.e : x \in gr}

RECURSIVE RefReach(_, _)
RefReach(gr, S) ==
  LET S2 == S \cup {x \in Nodes : \E e \in RefEdges(gr) : x \in e /\ e \cap S # {}}
  IN IF S2 = S THEN S ELSE RefReach(gr, S2)

RefConnected(gr, u, v) == v \in RefReach(gr, {u})

RECURSIVE RefPath(_, _, _, _)
\* the path from u to v avoiding the nodes in seen: whether it exists, its
\* weight under the max monoid (m) and under addition (gw), and its length
\* (a node is joined to itself by the empty path of weight identity; the
\* tests ask for paths between different nodes only)
RefPath(gr, u, v, seen) ==
  IF u = v THEN [ok |-> TRUE, m |-> 0, gw |-> 0, len |-> 0]
  ELSE LET out == {x \in gr : u \in x.e /\ (x.e \ {u}) \cap seen = {}}
           sub == {[x |-> x,
                    r |-> RefPath(gr, CHOOSE y \in x.e : y # u, v, seen \cup {u})] : x \in out}
           good == {s \in sub : s.r.ok}
       IN IF good = {} THEN [ok |-> FALSE, m |-> 0, gw |-> 0, len |-> 0]
          ELSE LET s == CHOOSE s \in good : TRUE
               IN [ok |-> TRUE, m |-> Monoid_add(s.x.w, s.r.m),
                   gw |-> s.x.w + s.r.gw, len |-> s.r.len + 1]

RefPathWeight(gr, u, v) == RefPath(gr, u, v, {})

\* ------------------------------------------ the DynamicForest under test
STTImpls ==
  {[kind |-> "stt", ntr |-> "extended", strategy |-> s] : s \in ExtendedStrategies}
  \cup {[kind |-> "stt", ntr |-> "stable", strategy |-> s] : s \in StableStrategies}

LinkCutImpl == [kind |-> "linkcut", ntr |-> "-", strategy |-> "-"]
OneCutImpl == [kind |-> "onecut", ntr |-> "-", strategy |-> "-"]

Impls == STTImpls \cup {LinkCutImpl, OneCutImpl}

\* DynamicForest::new
DF_new(i) ==
  CASE i.kind = "stt" -> STT_new_weighted
    [] i.kind = "linkcut" -> LC_new_weighted
    [] i.kind = "onecut" -> OC_new

\* DynamicForest::link
DF_link(i, t, u, v, w) ==
  CASE i.kind = "stt" -> STT_link(i, t, u, v, w)
    [] i.kind = "linkcut" -> LC_link(t, u, v, w)
    [] i.kind = "onecut" -> OC_link(t, u, v, w)

\* DynamicForest::cut
DF_cut(i, t, u, v) ==
  CASE i.kind = "stt" -> STT_cut(i, t, u, v)
    [] i.kind = "linkcut" -> LC_cut(t, u, v)
    [] i.kind = "onecut" -> OC_cut(t, u, v)

\* DynamicForest::compute_path_weight
DF_compute_path_weight(i, t, u, v) ==
  CASE i.kind = "stt" -> STT_compute_path_weight(i, t, u, v)
    [] i.kind = "linkcut" -> LC_compute_path_weight(t, u, v)
    [] i.kind = "onecut" -> OC_compute_path_weight(t, u, v)

\* DynamicForest::edges, as a set of unordered pairs
DF_edges(i, t) ==
  CASE i.kind = "stt" -> STT_edges(t)
    [] i.kind = "linkcut" -> LC_edges(t)
    [] i.kind = "onecut" -> OC_edges(t)

\* edges() runs on a clone; a panic there reaches the caller all the same
DF_edges_err(i, t) ==
  CASE i.kind = "stt" -> make_1_cut(t).err
    [] i.kind = "linkcut" -> make_one_cut(t).err
    [] i.kind = "onecut" -> ""

Init ==
  /\ impl \in Impls
  /\ f = DF_new(impl)
  /\ g = {}

Running == f.err = ""

\* The tests draw the weight of a new edge at random.  Here the weight of
\* the edge {u, v} is fixed by its end points, so that the forest's shape is
\* explored in full; every value of Weights occurs, and SpecAgree below
\* draws the weights freely.
EdgeWeight(u, v) == 1 + ((u + v) % MaxWeight)

\* link(u, v, w) as the tests issue it: u and v in different trees
Link(u, v, w) ==
  /\ Running
  /\ u # v
  /\ ~RefConnected(g, u, v)
  /\ f' = DF_link(impl, f, u, v, w)
  /\ g' = g \cup {[e |-> {u, v}, w |-> w]}
  /\ UNCHANGED impl

\* cut(u, v) as the tests issue it: {u, v} is an edge, in either orientation
Cut(u, v) ==
  /\ Running
  /\ {u, v} \in RefEdges(g)
  /\ u # v
  /\ f' = DF_cut(impl, f, u, v)
  /\ g' = {x \in g : x.e # {u, v}}
  /\ UNCHANGED impl

\* compute_path_weight(u, v) for any two nodes
ComputePathWeight(u, v) ==
  /\ Running
  /\ f' = DF_compute_path_weight(impl, f, u, v).t
  /\ UNCHANGED <<impl, g>>

\* get_edge_weight(u, v) for any two nodes
GetEdgeWeight(u, v) ==
  /\ Running
  /\ impl.kind = "stt"
  /\ f' = STT_get_edge_weight(impl, f, u, v).t
  /\ UNCHANGED <<impl, g>>

\* edges(): works on a clone, the forest itself is only read
Edges ==
  /\ Running
  /\ LET panicked(e) == IF e # "" THEN [f EXCEPT !.err = e] ELSE f
     IN f' = panicked(DF_edges_err(impl, f))
  /\ UNCHANGED <<impl, g>>

Next ==
  \/ \E u, v \in Nodes : Link(u, v, EdgeWeight(u, v))
  \/ \E u, v \in Nodes : Cut(u, v)
  \/ \E u, v \in Nodes : ComputePathWeight(u, v)
  \/ \E u, v \in Nodes : GetEdgeWeight(u, v)
  \/ Edges

Spec == Init /\ [][Next]_vars

\* ------------------------------------- the RootedDynamicForest under test
RootedImpls ==
  {[kind |-> "rooted_stt", ntr |-> "extended", strategy |-> s] : s \in ExtendedStrategies}
  \cup {[kind |-> "rooted_stt", ntr |-> "stable", strategy |-> s] : s \in StableStrategies}
  \cup {[kind |-> "rooted_linkcut", ntr |-> "-", strategy |-> "-"]}

\* RootedDynamicForest::link
RDF_link(i, t, u, v) ==
  IF i.kind = "rooted_stt" THEN Rooted_link(i, t, u, v) ELSE LCR_link(t, u, v)

\* RootedDynamicForest::cut
RDF_cut(i, t, v) ==
  CASE i.kind = "rooted_linkcut" -> LCR_cut(t, v)
    [] i.kind = "rooted_stt" /\ i.ntr = "extended" -> Standard_cut(i, t, v)
    [] i.kind = "rooted_stt" /\ i.ntr = "stable" -> Stable_cut(i, t, v)

\* RootedDynamicForest::find_root
RDF_find_root(i, t, v) ==
  IF i.kind = "rooted_stt" THEN Rooted_find_root(i, t, v) ELSE LCR_find_root(t, v)

\* RootedDynamicForest::lowest_common_ancestor
RDF_lowest_common_ancestor(i, t, u, v) ==
  CASE i.kind = "rooted_linkcut" -> LCR_lowest_common_ancestor(t, u, v)
    [] i.kind = "rooted_stt" /\ i.ntr = "extended" -> Standard_lowest_common_ancestor(i, t, u, v)
    [] i.kind = "rooted_stt" /\ i.ntr = "stable" -> Stable_lowest_common_ancestor(i, t, u, v)

\* TestRootedDynamicForest::new; g is the parent array of the reference
InitRooted ==
  /\ impl \in RootedImpls
  /\ f = IF impl.kind = "rooted_stt" THEN STT_new_rooted ELSE LC_new_rooted
  /\ g = [x \in Nodes |-> None]

\* link(u, v) as the tests issue it: u the root of a tree that v is not in
RLink(u, v) ==
  /\ Running
  /\ g[u] = None
  /\ Simple_find_root(g, v) # u
  /\ f' = RDF_link(impl, f, u, v)
  /\ g' = [g EXCEPT ![u] = v]
  /\ UNCHANGED impl

\* cut(v) as the tests issue it: v is not a root
RCut(v) ==
  /\ Running
  /\ g[v] # None
  /\ f' = RDF_cut(impl, f, v)
  /\ g' = [g EXCEPT ![v] = None]
  /\ UNCHANGED impl

\* make_root(v), of the eversible forests
RMakeRoot(v) ==
  /\ Running
  /\ impl.kind = "rooted_stt"
  /\ f' = Rooted_make_root(impl, f, v)
  /\ g' = Simple_make_root(g, v)
  /\ UNCHANGED impl

\* find_root(v) for any node
RFindRoot(v) ==
  /\ Running
  /\ f' = RDF_find_root(impl, f, v).t
  /\ UNCHANGED <<impl, g>>

\* lowest_common_ancestor(u, v) for any two nodes
RLowestCommonAncestor(u, v) ==
  /\ Running
  /\ f' = RDF_lowest_common_ancestor(impl, f, u, v).t
  /\ UNCHANGED <<impl, g>>

NextRooted ==
  \/ \E u, v \in Nodes : RLink(u, v)
  \/ \E v \in Nodes : RCut(v)
  \/ \E v \in Nodes : RMakeRoot(v)
  \/ \E v \in Nodes : RFindRoot(v)
  \/ \E u, v \in Nodes : RLowestCommonAncestor(u, v)

SpecRooted == InitRooted /\ [][NextRooted]_vars

\* ------------------------- the four DynamicForests, driven in lock-step
\* The stable counterpart of an extended strategy (splaytt.rs, mtrtt.rs).
StableOf(s) ==
  CASE s = "TwoPassSplay" -> "StableTwoPassSplay"
    [] s = "LocalTwoPassSplay" -> "StableLocalTwoPassSplay"
    [] OTHER -> s

\* The implementations compared: an extended STT forest, its stable
\* counterpart, the link-cut forest and the one-cut forest.
Compared(i) ==
  [ext |-> [kind |-> "stt", ntr |-> "extended", strategy |-> i.strategy],
   stable |-> [kind |-> "stt", ntr |-> "stable", strategy |-> StableOf(i.strategy)],
   lc |-> LinkCutImpl,
   oc |-> OneCutImpl]

Names == {"ext", "stable", "lc", "oc"}


\* one forest per implementation, all fresh; g as in Init
InitAgree ==
  /\ impl \in {[kind |-> "all", ntr |-> "-", strategy |-> s] : s \in ExtendedStrategies}
  /\ f = [ext |-> DF_new(Compared(impl).ext), stable |-> DF_new(Compared(impl).stable),
          lc |-> DF_new(Compared(impl).lc), oc |-> DF_new(Compared(impl).oc), steps |-> 0]
  /\ g = {}

\* the test goes on while no forest has panicked; it issues MaxSteps operations
AllRunning == f.steps < MaxSteps /\ \A n \in Names : f[n].err = ""

\* the same link on every forest
LinkAll(u, v, w) ==
  /\ AllRunning
  /\ u # v
  /\ ~RefConnected(g, u, v)
  /\ f' = [ext |-> STT_link(Compared(impl).ext, f.ext, u, v, w),
           stable |-> STT_link(Compared(impl).stable, f.stable, u, v, w),
           lc |-> LC_link(f.lc, u, v, w),
           oc |-> OC_link(f.oc, u, v, w),
           steps |-> f.steps + 1]
  /\ g' = g \cup {[e |-> {u, v}, w |-> w]}
  /\ UNCHANGED impl

\* the same cut on every forest
CutAll(u, v) ==
  /\ AllRunning
  /\ {u, v} \in RefEdges(g)
  /\ u # v
  /\ f' = [ext |-> STT_cut(Compared(impl).ext, f.ext, u, v),
           stable |-> STT_cut(Compared(impl).stable, f.stable, u, v),
           lc |-> LC_cut(f.lc, u, v),
           oc |-> OC_cut(f.oc, u, v),
           steps |-> f.steps + 1]
  /\ g' = {x \in g : x.e # {u, v}}
  /\ UNCHANGED impl

\* the same query on every forest
ComputePathWeightAll(u, v) ==
  /\ AllRunning
  /\ f' = [ext |-> STT_compute_path_weight(Compared(impl).ext, f.ext, u, v).t,
           stable |-> STT_compute_path_weight(Compared(impl).stable, f.stable, u, v).t,
           lc |-> LC_compute_path_weight(f.lc, u, v).t,
           oc |-> OC_compute_path_weight(f.oc, u, v).t,
           steps |-> f.steps + 1]
  /\ UNCHANGED <<impl, g>>

NextAgree ==
  \/ \E u, v \in Nodes, w \in Weights : LinkAll(u, v, w)
  \/ \E u, v \in Nodes : CutAll(u, v)
  \/ \E u, v \in Nodes : ComputePathWeightAll(u, v)

SpecAgree == InitAgree /\ [][NextAgree]_vars

\* ------------------------------------ random rotations on a single STT
\* STT::new with EmptyNodeData: the structure alone
STT_new_plain ==
  [kind |-> "plain", parent |-> NoNode, dsep |-> NoNode, isep |-> NoNode, err |-> ""]

\* generate_rooted_tree_edges: the parent arrays of the rooted trees on Nodes
RootedTrees ==
  {par \in [Nodes -> Nodes \cup {None}] :
     \E r \in Nodes : par[r] = None /\ \A x \in Nodes : Simple_find_root(par, x) = r}

\* generate_stt: attach every node to its parent; the result is 1-cut
generate_stt(par) == [STT_new_plain EXCEPT !.parent = par]

\* test_random_rotations: t is a generated STT; g keeps the edges of t0
InitRotations ==
  /\ impl = [kind |-> "plain_stt", ntr |-> "-", strategy |-> "-"]
  /\ \E par \in RootedTrees :
       /\ f = generate_stt(par)
       /\ g = {[e |-> {x, par[x]}, w |-> 1] : x \in {y \in Nodes : par[y] # None}}

\* one round of the test loop with a node that can be rotated
Rotate(v) ==
  /\ Running
  /\ can_rotate(f, v)
  /\ f' = rotate(f, v)
  /\ UNCHANGED <<impl, g>>

NextRotations == \E v \in Nodes : Rotate(v)

SpecRotations == InitRotations /\ [][NextRotations]_vars

\* --------------------------------------------------- compute_mst (mst.rs)
\* the longest stream of edges that compute_mst is given
MaxStream == 3

\* link_with_weight: the new edge carries its weight and its end points
link_with_weight(i, t, u, v, weight) ==
  DF_link(i, t, u, v, MaxEdge_code(MaxEdge_new(weight, <<u, v>>)))

\* unwrap_edge, then cut( x, y ) and link_with_weight( u, v )
Mst_replace(i, t, max_edge, u, v, weight) ==
  IF max_edge = << >> THEN Fail(t, "unwrap_edge")
  ELSE link_with_weight(i, DF_cut(i, t, max_edge[1], max_edge[2]), u, v, weight)

\* the loop's body without the exchange: an edge between connected nodes is
\* dropped, whatever it weighs
Mst_after_query_no_exchange(i, a, u, v, weight) ==
  IF a.t.err # "" THEN a.t
  ELSE IF a.m = NoneW THEN link_with_weight(i, a.t, u, v, weight)
  ELSE a.t

\* the body of compute_mst's loop, after compute_path_weight( u, v ) gave a
Mst_after_query(i, a, u, v, weight) ==
  IF a.t.err # "" THEN a.t
  ELSE IF a.m = NoneW THEN link_with_weight(i, a.t, u, v, weight)
  ELSE IF weight < MaxEdge_of(a.m[1]).value
       THEN Mst_replace(i, a.t, MaxEdge_of(a.m[1]).edge, u, v, weight)
       ELSE a.t

\* one round of compute_mst's loop, for the stream's edge (u, v, weight)
compute_mst_step(i, t, u, v, weight) ==
  Mst_after_query(i, DF_compute_path_weight(i, t, u, v), u, v, weight)

\* compute_mst starts from an empty forest; g is the stream read so far
InitMst ==
  /\ impl \in {[kind |-> "mst", of |-> i] : i \in Impls}
  /\ f = DF_new(impl.of)
  /\ g = {}

\* compute_mst reads the next edge of its stream; an edge is named as
\* combinations( 2 ) names it for the benchmark's streams, u before v
MstEdge(u, v, weight) ==
  /\ impl.kind = "mst"
  /\ f.err = ""
  /\ u < v
  /\ Cardinality(g \cup {[e |-> {u, v}, w |-> weight]}) <= MaxStream
  /\ f' = compute_mst_step(impl.of, f, u, v, weight)
  /\ g' = g \cup {[e |-> {u, v}, w |-> weight]}
  /\ UNCHANGED impl

NextMst == \E u, v \in Nodes : \E weight \in 0 .. MaxWeight : MstEdge(u, v, weight)

SpecMst == InitMst /\ [][NextMst]_vars

\* ------------------------------------ rotations on STTs of some more nodes
\* The cases of the splay strategies that take a separator with a separator
\* above it need six nodes on one root path.  The nodes of these STTs:
LargeNodes == 0 .. (NumNodes + 1)

\* the trees of generate_rooted_tree_edges before its shuffle: the parent of
\* a node is an earlier node (the strategies never compare node indices)
LargeTrees ==
  {par \in [LargeNodes -> LargeNodes \cup {None}] :
     \A x \in LargeNodes : IF x = 0 THEN par[x] = None ELSE par[x] # None /\ par[x] < x}

\* generate_stt on LargeNodes: every node attached to its parent
generate_large_stt(par) ==
  [kind |-> "plain", parent |-> par, dsep |-> [x \in LargeNodes |-> None],
   isep |-> [x \in LargeNodes |-> None], err |-> ""]

InitLarge ==
  /\ impl = [kind |-> "large_stt", ntr |-> "-", strategy |-> "-"]
  /\ \E par \in LargeTrees : f = generate_large_stt(par) /\ g = par

\* a rotation of a node that can be rotated
RotateLarge(v) ==
  /\ impl.kind = "large_stt"
  /\ f.err = ""
  /\ can_rotate(f, v)
  /\ f' = rotate(f, v)
  /\ UNCHANGED <<impl, g>>

NextLarge == \E v \in LargeNodes : RotateLarge(v)

SpecLarge == InitLarge /\ [][NextLarge]_vars

\* ------------------------------ FullyDynamicConnectivity (connectivity.rs)
\* the largest number of edges present at a time
MaxPresent == 4

\* the largest number of calls made on one FullyDynamicConnectivity
MaxCalls == 4

\* EmptyGroupWeight has one value; the forests carry it as the weight 0
EmptyGroupWeight == 0

\* FullyDynamicConnectivity::new; an edge of unused_edges is the pair <<u, v>>
FDC_new(i) == [df |-> DF_new(i), unused_edges |-> {}]

\* the edges of a BTreeSet<Edge> in its order: by the first node, then by
\* the second
BTree_first(S) ==
  CHOOSE e \in S : \A d \in S : e[1] < d[1] \/ (e[1] = d[1] /\ e[2] <= d[2])

\* The loop of find_usable_edge over the edges rest: df.compute_path_weight
\* for one edge after the other, up to the first whose ends it finds not
\* connected; the answer is that edge, or << >> if there is none.  With
\* rest = {(u, v)} it is the query of check_connected( u, v ).
RECURSIVE find_usable_edge_from(_, _, _)
find_usable_edge_from(i, c, rest) ==
  LET next_after(a, e) ==
        IF a.t.err # "" THEN Answer([c EXCEPT !.df = a.t], << >>)
        ELSE IF a.m = NoneW THEN Answer([c EXCEPT !.df = a.t], e)
        ELSE find_usable_edge_from(i, [c EXCEPT !.df = a.t], rest \ {e})
      look_at(e) == next_after(DF_compute_path_weight(i, c.df, e[1], e[2]), e)
  IN IF rest = {} THEN Answer(c, << >>) ELSE look_at(BTree_first(rest))

\* check_connected( u, v ): the query may restructure df
FDC_check_connected(i, c, u, v) ==
  LET answered(a) == Answer(a.t, a.t.df.err = "" /\ a.r = << >>)
  IN answered(find_usable_edge_from(i, c, {<<u, v>>}))

\* the calls of a FullyDynamicConnectivity
FDC_calls == {"insert_edge", "delete_edge", "check_connected"}

\* One call, call( u, v ).  The three functions are laid over each other,
\* so that each operation of the forest stands once:
\*   delete_edge  takes (u, v) out of unused_edges and is done, or does
\*                df.cut( u, v ), find_usable_edge() and, with an edge
\*                (x, y) found, df.link( x, y ) and takes it out of
\*                unused_edges;
\*   insert_edge  does check_connected( u, v ) and puts (u, v) into
\*                unused_edges if that holds, else df.link( u, v );
\*   check_connected  does the query only.
FDC_call(i, c, call, u, v) ==
  LET found(a) ==
        IF a.t.df.err # "" \/ call = "check_connected" THEN a.t
        ELSE IF a.r = << >>
             THEN IF call = "insert_edge"
                  THEN [a.t EXCEPT !.unused_edges = @ \cup {<<u, v>>}]
                  ELSE a.t
        ELSE [a.t EXCEPT !.df = DF_link(i, @, a.r[1], a.r[2], EmptyGroupWeight),
                         !.unused_edges = IF call = "delete_edge" THEN @ \ {a.r} ELSE @]
      queries(c1, rest) ==
        IF c1.df.err # "" THEN c1 ELSE found(find_usable_edge_from(i, c1, rest))
  IN IF call = "delete_edge" /\ <<u, v>> \in c.unused_edges
     THEN [c EXCEPT !.unused_edges = @ \ {<<u, v>>}]
     ELSE queries(IF call = "delete_edge" THEN [c EXCEPT !.df = DF_cut(i, @, u, v)] ELSE c,
                  IF call = "delete_edge" THEN c.unused_edges ELSE {<<u, v>>})

\* insert_edge( u, v )
FDC_insert_edge(i, c, u, v) == FDC_call(i, c, "insert_edge", u, v)

\* delete_edge( u, v )
FDC_delete_edge(i, c, u, v) == FDC_call(i, c, "delete_edge", u, v)

\* a FullyDynamicConnectivity over each kind of forest; g is the graph of
\* the edges present, impl.calls the number of calls made
InitConnectivity ==
  /\ impl \in {[kind |-> "connectivity", of |-> i, calls |-> 0] : i \in Impls}
  /\ f = FDC_new(impl.of)
  /\ g = {}

\* what a call may be made with: insert_edge( u, v ) with an edge that is
\* not present, delete_edge( u, v ) with one that is, named from either
\* end, check_connected( u, v ) with any two nodes
MayCall(call, u, v) ==
  CASE call = "insert_edge" ->
         u # v /\ Cardinality(g) < MaxPresent /\ {u, v} \notin RefEdges(g)
    [] call = "delete_edge" -> u # v /\ {u, v} \in RefEdges(g)
    [] call = "check_connected" -> TRUE

\* the graph after the call
PresentAfter(call, u, v) ==
  CASE call = "insert_edge" -> g \cup {[e |-> {u, v}, w |-> EmptyGroupWeight]}
    [] call = "delete_edge" -> {x \in g : x.e # {u, v}}
    [] call = "check_connected" -> g

\* one call of insert_edge, delete_edge or check_connected
Call(call, u, v) ==
  /\ impl.kind = "connectivity"
  /\ f.df.err = ""
  /\ impl.calls < MaxCalls
  /\ MayCall(call, u, v)
  /\ f' = FDC_call(impl.of, f, call, u, v)
  /\ g' = PresentAfter(call, u, v)
  /\ impl' = [impl EXCEPT !.calls = @ + 1]

NextConnectivity == \E call \in FDC_calls : \E u, v \in Nodes : Call(call, u, v)

SpecConnectivity == InitConnectivity /\ [][NextConnectivity]_vars

\* ---------------------------- MonoidWeightWithMaxEdge on its own (common.rs)
\* the values of MonoidWeightWithMaxEdge: the identity and the values that
\* new( value, (u, v) ) constructs
MaxEdgeValues ==
  {MaxEdge_identity}
  \cup {MaxEdge_new(w, <<u, v>>) : w \in 0 .. MaxWeight, u \in Nodes, v \in Nodes}

\* two values to add
InitMaxEdge ==
  /\ impl = [kind |-> "max_edge", ntr |-> "-", strategy |-> "-"]
  /\ f \in MaxEdgeValues
  /\ g \in MaxEdgeValues

\* f + g, and a new right operand
AddMaxEdge(c) ==
  /\ impl.kind = "max_edge"
  /\ f' = MaxEdge_add(f, g)
  /\ g' = c
  /\ UNCHANGED impl

NextMaxEdge == \E c \in MaxEdgeValues : AddMaxEdge(c)

SpecMaxEdge == InitMaxEdge /\ [][NextMaxEdge]_vars

\* ------------------------------------------------------------- properties
\* What compute_path_weight(u, v) answers in the current state, and the
\* reference path it is compared with.  A vertex is joined to itself by the
\* empty path, whose weight is the identity (0 for both weight types).
PathWeightNow(u, v) == DF_compute_path_weight(impl, f, u, v)
RefNow(u, v) == RefPathWeight(g, u, v)

\* the answer a (of compute_path_weight) is Some exactly when the reference
\* r has a path
SomeIffPath(a, r) ==
  /\ a.t.err = ""
  /\ (a.m # NoneW) <=> r.ok
  /\ (a.gw # NoneW) <=> r.ok

\* an answer a that is Some carries the weight of the reference path r
SomeIsPathWeight(a, r) ==
  /\ (a.t.err = "" /\ a.m # NoneW) => (r.ok /\ a.m = SomeW(r.m))
  /\ (a.t.err = "" /\ a.gw # NoneW) => (r.ok /\ a.gw = SomeW(r.gw))

\* the answer a is Some(weight of the reference path r), or None without one
IsPathWeight(a, r) ==
  /\ a.t.err = ""
  /\ a.m = (IF r.ok THEN SomeW(r.m) ELSE NoneW)
  /\ a.gw = (IF r.ok THEN SomeW(r.gw) ELSE NoneW)

\* C1: after any legal links and cuts, on every DynamicForest and for every
\* pair of vertices u, v, compute_path_weight(u, v) returns Some iff u and v
\* are connected in the reference graph.
C1_ConnectivityCoincidence ==
  Running => \A u, v \in Nodes : SomeIffPath(PathWeightNow(u, v), RefNow(u, v))

\* C2: on the STT forests (extended and stable, every strategy, monoid and
\* group weights), whenever compute_path_weight(u, v) returns Some(w), u and v
\* are joined by a path of the reference graph and w is the sum of its weights.
C2_STTPathWeight ==
  (Running /\ impl.kind = "stt") =>
    \A u, v \in Nodes : SomeIsPathWeight(PathWeightNow(u, v), RefNow(u, v))

\* a path of len edges, its two weights different, answered by the forest
\* after restructuring it
PathAnswered(u, v, len) ==
  /\ RefNow(u, v).len = len
  /\ RefNow(u, v).m # RefNow(u, v).gw
  /\ PathWeightNow(u, v).m = SomeW(RefNow(u, v).m)
  /\ PathWeightNow(u, v).gw = SomeW(RefNow(u, v).gw)
  /\ PathWeightNow(u, v).t # f

C2_Witness ==
  /\ Running
  /\ impl.kind = "stt"
  /\ \E u, v \in Nodes : PathAnswered(u, v, NumNodes - 1)

\* C3: on the link-cut forest (monoid and group weights), compute_path_weight
\* (u, v) returns Some(sum of the weights on the u-v path) when u and v are
\* connected and None otherwise.
C3_LinkCutPathWeight ==
  (Running /\ impl.kind = "linkcut") =>
    \A u, v \in Nodes : IsPathWeight(PathWeightNow(u, v), RefNow(u, v))

\* a path over all nodes but one, and a pair of vertices without a path
C3_Witness ==
  /\ Running
  /\ impl.kind = "linkcut"
  /\ \E u, v \in Nodes : PathAnswered(u, v, NumNodes - 2)
  /\ \E u, v \in Nodes : ~RefNow(u, v).ok /\ PathWeightNow(u, v).m = NoneW

\* C4: on the STT forests and the link-cut forest, edges() returns exactly the
\* edges linked and not yet cut, as unordered pairs, and returns normally, so
\* that the forest it was called on (edges works on a clone) stays as it was.
C4_Edges ==
  (Running /\ impl.kind \in {"stt", "linkcut"}) =>
    /\ DF_edges(impl, f) = RefEdges(g)
    /\ DF_edges_err(impl, f) = ""

\* a spanning tree whose search tree is not 1-cut: the parent pointers are
\* not the edges, those of the 1-cut clone are
C4_Witness ==
  /\ Running
  /\ impl.kind = "stt"
  /\ Cardinality(g) = NumNodes - 1
  /\ STT_parent_edges(f) # RefEdges(g)
  /\ DF_edges(impl, f) = RefEdges(g)

\* the weight of the edge {u, v} in the reference graph, None without it
RefEdgeWeight(gr, u, v) ==
  IF {u, v} \in RefEdges(gr) /\ u # v
  THEN SomeW((CHOOSE x \in gr : x.e = {u, v}).w)
  ELSE NoneW

\* the answer a of get_edge_weight is the reference's w, without a panic
IsEdgeWeight(a, w) ==
  /\ a.t.err = ""
  /\ a.m = w
  /\ a.gw = w

\* C5: get_edge_weight(u, v) has no precondition: in every reachable state of
\* an STT forest (extended and stable) and for every u, v it returns Some(w)
\* when the edge {u, v} exists with weight w and None when it does not, and
\* trips no assertion.
C5_GetEdgeWeightTotal ==
  (Running /\ impl.kind = "stt") =>
    \A u, v \in Nodes :
      IsEdgeWeight(STT_get_edge_weight(impl, f, u, v), RefEdgeWeight(g, u, v))

\* the result of compute_path_weight(u, v) on the forest named n
ResultOf(n, u, v) ==
  LET result(a) == <<a.t.err, a.m, a.gw>>
  IN result(DF_compute_path_weight(Compared(impl)[n], f[n], u, v))

\* C6: after the same legal links and cuts, the extended STT forest, the
\* stable STT forest, the link-cut forest and the one-cut forest return the
\* same result for compute_path_weight(u, v), for every pair of vertices.
C6_Agreement ==
  (\A n \in Names : f[n].err = "") =>
    \A u, v \in Nodes : \A n \in Names : ResultOf(n, u, v) = ResultOf("oc", u, v)

\* find_root(v) returns, and returns the reference's root of v
IsRefRoot(a, v) == a.t.err = "" /\ a.r = Simple_find_root(g, v)

\* C7: after any legal link, cut and make_root operations, find_root(v) of the
\* rooted STT forests (standard and stable, every strategy) and of the rooted
\* link-cut tree is the root of v's tree in the reference forest.
C7_FindRoot ==
  Running => \A v \in Nodes : IsRefRoot(RDF_find_root(impl, f, v), v)

\* a vertex two levels below its root, found by restructuring the forest
C7_Witness ==
  /\ Running
  /\ impl.kind = "rooted_stt"
  /\ \E v \in Nodes :
       /\ g[v] # None
       /\ g[g[v]] # None
       /\ RDF_find_root(impl, f, v).r = Simple_find_root(g, v)
       /\ RDF_find_root(impl, f, v).t # f

\* lowest_common_ancestor(u, v) returns, and returns the reference's answer
IsRefLCA(a, u, v) == a.t.err = "" /\ a.r = Simple_lowest_common_ancestor(g, u, v)

\* C8: in every reachable state and for any two vertices u, v of the same
\* tree, lowest_common_ancestor(u, v) of the rooted forests returns the lowest
\* common ancestor that SimpleRootedForest computes.
C8_LowestCommonAncestor ==
  Running =>
    \A u, v \in Nodes :
      Simple_find_root(g, u) = Simple_find_root(g, v) =>
        IsRefLCA(RDF_lowest_common_ancestor(impl, f, u, v), u, v)

\* find_root and lowest_common_ancestor agree on whether u and v share a tree
SameTreeIffLCA(ru, rv, a) ==
  /\ a.t.err = ""
  /\ ru.t.err = "" /\ rv.t.err = ""
  /\ (ru.r = rv.r) <=> (a.r # None)

\* C9: in every reachable state and for all u, v, find_root(u) = find_root(v)
\* iff lowest_common_ancestor(u, v) is not None; for u and v in different
\* trees it returns None and trips no assertion.
C9_RootedConsistency ==
  Running =>
    \A u, v \in Nodes :
      SameTreeIffLCA(RDF_find_root(impl, f, u), RDF_find_root(impl, f, v),
                     RDF_lowest_common_ancestor(impl, f, u, v))

\* after cut(v) gave the forest t2: x has the root v if it was in the subtree
\* of v, and the root it had before otherwise
RootAfterCut(t2, v, x) ==
  /\ RDF_find_root(impl, t2, x).t.err = ""
  /\ RDF_find_root(impl, t2, x).r =
       (IF v \in Simple_ancestors(g, x, NumNodes) THEN v
        ELSE RDF_find_root(impl, f, x).r)

RootsAfterCut(t2, v) == t2.err = "" /\ \A x \in Nodes : RootAfterCut(t2, v, x)

\* C10: cut(v) of a non-root vertex v removes the edge to its parent:
\* afterwards find_root(v) = v, every vertex of v's subtree has the root v
\* and every other vertex keeps the root it had.
C10_RootedCut ==
  Running => \A v \in Nodes : g[v] # None => RootsAfterCut(RDF_cut(impl, f, v), v)

\* v is cut with a child c below it and its grandparent above it
CutInTheMiddle(v, c) ==
  /\ g[c] = v
  /\ g[v] # None
  /\ g[g[v]] # None
  /\ RootsAfterCut(RDF_cut(impl, f, v), v)
  /\ RDF_find_root(impl, RDF_cut(impl, f, v), c).r = v
  /\ RDF_find_root(impl, RDF_cut(impl, f, v), g[v]).r = Simple_find_root(g, v)

C10_Witness ==
  /\ Running
  /\ impl.kind = "rooted_stt"
  /\ \E v, c \in Nodes : CutInTheMiddle(v, c)

\* the undirected edges of the reference forest with the parent array par
Simple_edges(par) == {{x, par[x]} : x \in {y \in Nodes : par[y] # None}}

\* the rooted forest t answers find_root and lowest_common_ancestor as the
\* reference forest par does (the latter for two vertices of one tree)
AnswersAs(t, par) ==
  /\ \A w \in Nodes :
       /\ RDF_find_root(impl, t, w).t.err = ""
       /\ RDF_find_root(impl, t, w).r = Simple_find_root(par, w)
  /\ \A u, w \in Nodes :
       Simple_find_root(par, u) = Simple_find_root(par, w) =>
         /\ RDF_lowest_common_ancestor(impl, t, u, w).t.err = ""
         /\ RDF_lowest_common_ancestor(impl, t, u, w).r =
              Simple_lowest_common_ancestor(par, u, w)

\* make_root(v) took the forest to t2: v is the root of all of its tree, the
\* other trees keep their roots, and the underlying edges are those of before
RerootedAt(t2, v) ==
  /\ t2.err = ""
  /\ \A w \in Nodes :
       RDF_find_root(impl, t2, w).r =
         (IF Simple_find_root(g, w) = Simple_find_root(g, v) THEN v
          ELSE Simple_find_root(g, w))
  /\ STT_edges(t2) = Simple_edges(g)
  /\ Simple_edges(Simple_make_root(g, v)) = Simple_edges(g)

\* C11: after make_root(v) on an eversible rooted STT forest, find_root(w) = v
\* for every w of v's tree, the undirected underlying edges are unchanged, the
\* other trees are unaffected, and find_root and lowest_common_ancestor answer
\* as SimpleRootedForest does after its make_root(v).
C11_MakeRoot ==
  (Running /\ impl.kind = "rooted_stt") =>
    \A v \in Nodes :
      /\ RerootedAt(Rooted_make_root(impl, f, v), v)
      /\ AnswersAs(Rooted_make_root(impl, f, v), Simple_make_root(g, v))

\* C12: starting from a 1-cut STT on an underlying tree T, after any sequence
\* of rotations that can_rotate permits, make_1_cut and reading the parent
\* pointers give the edge set of T.
C12_RotationKeepsTree ==
  /\ f.err = ""
  /\ make_1_cut(f).err = ""
  /\ STT_edges(f) = RefEdges(g)

\* a rotated STT with separator nodes: its parent pointers are not the edges
C12_Witness ==
  /\ f.err = ""
  /\ \E v \in Nodes : f.isep[v] # None
  /\ \E v \in Nodes : f.dsep[v] # None
  /\ STT_parent_edges(f) # RefEdges(g)
  /\ STT_edges(f) = RefEdges(g)

RECURSIVE STT_ancestors(_, _, _)
\* the proper ancestors of v in the search tree t
STT_ancestors(t, v, fuel) ==
  IF t.parent[v] = None \/ fuel = 0 THEN {}
  ELSE {t.parent[v]} \cup STT_ancestors(t, t.parent[v], fuel - 1)

\* the nodes of the subtree of v in the search tree t
STT_subtree(t, v) == {x \in Nodes : x = v \/ v \in STT_ancestors(t, x, NumNodes)}

\* the boundary of the subtree of v: the nodes outside it that an edge of the
\* underlying tree (edge set E) joins to it
Boundary(t, E, v) ==
  {x \in Nodes \ STT_subtree(t, v) : \E y \in STT_subtree(t, v) : {x, y} \in E}

\* the child c of v is classified as its boundary says: direct separator iff
\* it has two boundary nodes, the parent of v among them; indirect separator
\* iff it has two boundary nodes, the parent of v not among them
ClassifiedRight(t, E, v, c) ==
  /\ (t.dsep[v] = c) <=>
       (Cardinality(Boundary(t, E, c)) = 2 /\ t.parent[v] \in Boundary(t, E, c))
  /\ (t.isep[v] = c) <=>
       (Cardinality(Boundary(t, E, c)) = 2 /\ t.parent[v] \notin Boundary(t, E, c))

\* t is a 2-cut search tree on the forest with the edges E
TwoCut(t, E) ==
  \A v \in Nodes :
    /\ Boundary(t, E, v) \subseteq STT_ancestors(t, v, NumNodes)
    /\ t.parent[v] # None => t.parent[v] \in Boundary(t, E, v)
    /\ Cardinality(Boundary(t, E, v)) <= 2
    /\ \A c \in Nodes : t.parent[c] = v => ClassifiedRight(t, E, v, c)

\* the separator pointers of t are sound and t is a 2-cut search tree on E
WellFormed(t, E) ==
  /\ t.err = ""
  /\ STT_is_valid(t)
  /\ \A v \in Nodes : t.dsep[v] # None => t.dsep[v] # t.isep[v]
  /\ TwoCut(t, E)

\* the edges of the underlying forest the model keeps beside the forest
\* under test
UnderlyingEdges ==
  IF impl.kind = "rooted_stt" THEN Simple_edges(g) ELSE RefEdges(g)

C14_MakeOneCut ==
  /\ make_1_cut(f).err = ""
  /\ \A v \in Nodes : ~is_separator(make_1_cut(f), v)

RECURSIVE make_1_cut_upto(_, _)
\* make_1_cut stopped before it visits the node v
make_1_cut_upto(t, v) ==
  IF v = 0 THEN t ELSE make_1_cut_node(make_1_cut_upto(t, v - 1), v - 1, Fuel)

\* the pass rotates two nodes, and one of its nodes more than once
C14_Witness ==
  /\ f.err = ""
  /\ \E u, v \in Nodes :
       /\ u < v
       /\ is_separator(make_1_cut_upto(f, u), u)
       /\ is_separator(make_1_cut_upto(f, v), v)
  /\ \E v \in Nodes :
       /\ is_separator(make_1_cut_upto(f, v), v)
       /\ is_separator(rotate(make_1_cut_upto(f, v), v), v)
  /\ \A v \in Nodes : ~is_separator(make_1_cut(f), v)

\* the root of the tree of v in the search tree t
STT_root(t, v) ==
  CHOOSE r \in Nodes : t.parent[r] = None /\ (r = v \/ r \in STT_ancestors(t, v, NumNodes))

\* the stability guarantee of node_to_root(v) with the strategy s on t: no
\* assertion fails, v is the root afterwards, and the former root u of v's
\* tree and all its ancestors are not separators afterwards
StableAt(s, t, v) ==
  /\ node_to_root(s, t, v).err = ""
  /\ node_to_root(s, t, v).parent[v] = None
  /\ \A a \in {STT_root(t, v)} \cup STT_ancestors(node_to_root(s, t, v), STT_root(t, v), NumNodes) :
       ~is_separator(node_to_root(s, t, v), a)

\* the guarantee for every node of t that is not a root
StableOn(s, t) == \A v \in Nodes : t.parent[v] # None => StableAt(s, t, v)

\* a call of node_to_root(v) with the strategy s that keeps the guarantee
\* and has to pass a separator among v and its ancestors
SeparatorCase(s, t) ==
  \E v \in Nodes :
    /\ t.parent[v] # None
    /\ \E x \in {v} \cup STT_ancestors(t, v, NumNodes) : is_separator(t, x)
    /\ StableAt(s, t, v)

\* a call of node_to_root(v) with the strategy s that keeps the guarantee
\* and leaves the former root with two or more ancestors
DeepCase(s, t) ==
  \E v \in Nodes :
    /\ t.parent[v] # None
    /\ Cardinality(STT_ancestors(node_to_root(s, t, v), STT_root(t, v), NumNodes)) >= 2
    /\ StableAt(s, t, v)

PathIsOneCut(s, t, u, v) ==
  \A p \in STT_ancestors(node_to_root(s, node_to_root(s, t, u), v), u, NumNodes) :
    ~is_separator(node_to_root(s, node_to_root(s, t, u), v), p)

ToRootAt(s, t, v) ==
  /\ node_to_root(s, t, v).err = ""
  /\ node_to_root(s, t, v).parent[v] = None

\* node_below_root(v) with the strategy s on t, v not a root, ends with v a
\* child of the root of its tree, the root being the same node as before
BelowRootAt(s, t, v) ==
  /\ node_below_root(s, t, v).err = ""
  /\ node_below_root(s, t, v).parent[STT_root(t, v)] = None
  /\ node_below_root(s, t, v).parent[v] = STT_root(t, v)

LinkRefused(u, v, w) ==
  LET refused(t2) ==
        /\ t2.err = "link_same_tree"
        /\ DF_edges(impl, [t2 EXCEPT !.err = ""]) = RefEdges(g)
        /\ impl.kind = "stt" => WellFormed([t2 EXCEPT !.err = ""], RefEdges(g))
  IN refused(DF_link(impl, f, u, v, w))

\* C18: link(u, v, w) with u # v in one tree always fails the same-tree
\* assertion, after the node_to_root calls and before a parent pointer is
\* attached, so that no cycle is created, for every STT strategy and for the
\* link-cut forest.
C18_LinkInOneTree ==
  (Running /\ impl.kind \in {"stt", "linkcut"})
    => \A u, v \in Nodes :
         (u # v /\ RefConnected(g, u, v)) => LinkRefused(u, v, EdgeWeight(u, v))

\* a tree on all nodes in which a link of two nodes that are not neighbours
\* is refused
C18_Witness ==
  /\ Running
  /\ impl.kind \in {"stt", "linkcut"}
  /\ Cardinality(RefEdges(g)) = NumNodes - 1
  /\ \E u, v \in Nodes :
       /\ u # v
       /\ {u, v} \notin RefEdges(g)
       /\ LinkRefused(u, v, EdgeWeight(u, v))
       /\ LinkRefused(v, u, EdgeWeight(u, v))

\* the test of cut(u, v) after edge_to_top on the forest t: u is a child of
\* v and has no direct separator child
EdgeTest(t, u, v) == t.parent[u] = v /\ t.dsep[u] = None

\* after edge_to_top for cut(u, v), with no assertion failed, the test of
\* cut holds iff {u, v} is an edge of the underlying forest
EdgeTestRight(u, v) ==
  LET right(t1) ==
        /\ t1.err = ""
        /\ EdgeTest(t1, u, v) <=> {u, v} \in RefEdges(g)
  IN right(edge_to_top(impl, f, v, u))

\* cut(u, v) removes the edge {u, v} and no assertion fails
CutDone(u, v) ==
  LET done(t2) ==
        /\ t2.err = ""
        /\ STT_edges(t2) = RefEdges(g) \ {{u, v}}
  IN done(STT_cut(impl, f, u, v))

\* C19: for u # v in one tree, after edge_to_top (extended: node_to_root(v),
\* node_below_root(u); stable: node_to_root(u), node_to_root(v)) the
\* condition parent(u) = v and dsep_child(u) = None holds iff {u, v} is an
\* edge of the underlying forest; cut(u, v) succeeds on every edge, and on
\* every pair that is not an edge an assertion fails.
C19_EdgeTest ==
  (Running /\ impl.kind = "stt")
    => \A u, v \in Nodes :
         /\ (u # v /\ RefConnected(g, u, v)) => EdgeTestRight(u, v)
         /\ {u, v} \in RefEdges(g) => CutDone(u, v)
         /\ (u # v /\ RefConnected(g, u, v) /\ {u, v} \notin RefEdges(g))
              => STT_cut(impl, f, u, v).err \in {"cut_no_edge", "cut_not_child"}
         /\ {u, v} \notin RefEdges(g) => STT_cut(impl, f, u, v).err # ""

\* a tree on all nodes: the test holds for an edge and a cut of it is done,
\* the test fails for two nodes of the tree that are not neighbours, in
\* both orders
C19_Witness ==
  /\ Running
  /\ impl.kind = "stt"
  /\ Cardinality(RefEdges(g)) = NumNodes - 1
  /\ \E u, v \in Nodes :
       /\ {u, v} \in RefEdges(g)
       /\ EdgeTestRight(u, v) /\ EdgeTestRight(v, u)
       /\ CutDone(u, v) /\ CutDone(v, u)
  /\ \E u, v \in Nodes :
       /\ u # v
       /\ {u, v} \notin RefEdges(g)
       /\ EdgeTestRight(u, v) /\ EdgeTestRight(v, u)
       /\ STT_cut(impl, f, u, v).err \in {"cut_no_edge", "cut_not_child"}

\* C20: on a rooted link-cut forest, get_underlying_parent(v) returns in
\* every reachable state the parent of v in the underlying rooted tree, and
\* None iff v is the root of its underlying tree.
C20_UnderlyingParent ==
  (Running /\ impl.kind = "rooted_linkcut")
    => \A v \in Nodes :
         /\ LC_get_underlying_parent(f, v).t.err = ""
         /\ LC_get_underlying_parent(f, v).r = g[v]

\* C21: MonoidWeightWithMaxEdge is a commutative monoid under +: for all
\* values a, b, c (values whose weight is the identity weight and values of
\* equal weight with different edges included), a + identity = identity + a
\* = a, a + b = b + a and (a + b) + c = a + (b + c); equality compares the
\* weight and the edge.
C21_CommutativeMonoid ==
  impl.kind = "max_edge"
    => /\ MaxEdge_add(f, MaxEdge_identity) = f
       /\ MaxEdge_add(MaxEdge_identity, f) = f
       /\ MaxEdge_add(f, g) = MaxEdge_add(g, f)
       /\ \A c \in MaxEdgeValues :
            MaxEdge_add(MaxEdge_add(f, g), c) = MaxEdge_add(f, MaxEdge_add(g, c))


\* ------------------------------------------------------------ compute_mst
\* the total weight of a set of weighted edges
RECURSIVE TotalWeight(_)
TotalWeight(S) ==
  IF S = {} THEN 0
  ELSE LET x == CHOOSE y \in S : TRUE IN x.w + TotalWeight(S \ {x})

\* S connects what gr connects
Spans(S, gr) == \A u \in Nodes : RefReach(S, {u}) = RefReach(gr, {u})

\* the number of connected components of the graph S on Nodes
Components(S) == Cardinality({RefReach(S, {u}) : u \in Nodes})

\* the least total weight of a part of gr that connects what gr connects:
\* the weight of a minimum spanning forest of gr
MsfWeight(gr) ==
  LET parts == {S \in SUBSET gr : Spans(S, gr)}
  IN TotalWeight(CHOOSE S \in parts : \A T \in parts : TotalWeight(S) <= TotalWeight(T))

\* the weight that the forest t keeps for its edge {x, y}
KeptWeight(i, t, e) ==
  LET x == CHOOSE y \in e : \A z \in e : y <= z
      weight_between(y) == MaxEdge_of(DF_compute_path_weight(i, t, x, y).m[1]).value
  IN weight_between(CHOOSE y \in e : y # x)

\* the edges that compute_mst returns, f.edges(), with their weights
MstReturned == {[e |-> e, w |-> KeptWeight(impl.of, f, e)] : e \in DF_edges(impl.of, f)}

C23_Connectivity ==
  impl.kind = "connectivity"
    => /\ f.df.err = ""
       /\ \A x, y \in Nodes :
            x # y =>
              /\ FDC_check_connected(impl.of, f, x, y).t.df.err = ""
              /\ FDC_check_connected(impl.of, f, x, y).r = RefConnected(g, x, y)


\* --------------------------------------- the separator children of rotate
\* in the underlying tree the path between a and b passes through x
Separates(x, a, b) == ~RefConnected({e \in g : x \notin e.e}, a, b)

\* the separator children of v in t, the result of rotate(v) on s, are what
\* the rule of rotate says
RotateRule(s, t, v) ==
  LET p == s.parent[v]
      rule(gp) ==
        IF gp = None THEN t.dsep[v] = None /\ t.isep[v] = None
        ELSE IF Separates(p, v, gp) THEN t.dsep[v] = p /\ t.isep[v] = s.isep[v]
        ELSE /\ Separates(v, p, gp)
             /\ t.dsep[v] = s.isep[v]
             /\ t.isep[v] = IF is_separator(s, p) THEN p ELSE None
  IN t.err = "" /\ rule(s.parent[p])

\* C24: rotate(v), with p the parent of v and gp the parent of p, sets the
\* separator children of v so: without gp both are none; if p separated v
\* from gp, the direct one is p and the indirect one is unchanged; else (v
\* separated p from gp) the direct one is the old indirect one of v, and
\* the indirect one is p if p was a separator and none otherwise.
C24_RotateSeparators ==
  (impl.kind = "plain_stt" /\ f.err = "")
    => \A v \in Nodes : can_rotate(f, v) => RotateRule(f, rotate(f, v), v)

\* a state in which some v can be rotated that separates its parent from
\* its grandparent, once with a parent that is a separator and once with a
\* parent that is none, and some v whose parent is a root
C24_Witness ==
  /\ impl.kind = "plain_stt"
  /\ f.err = ""
  /\ \E v \in Nodes : can_rotate(f, v) /\ f.parent[f.parent[v]] = None
  /\ \E v \in Nodes :
       /\ can_rotate(f, v)
       /\ f.parent[f.parent[v]] # None
       /\ f.dsep[f.parent[v]] = v
       /\ ~is_separator(f, f.parent[v])
       /\ rotate(f, v).isep[v] = None
  /\ \E v \in Nodes :
       /\ can_rotate(f, v)
       /\ f.parent[f.parent[v]] # None
       /\ f.dsep[f.parent[v]] = v
       /\ is_separator(f, f.parent[v])
       /\ rotate(f, v).isep[v] = f.parent[v]


\* ------------------------------------------------------ the rotation frame
\* the nodes that rotate(v) may change: v, its parent, its grandparent and
\* its direct separator child
RotationFrame(s, v) ==
  {v, s.parent[v], s.parent[s.parent[v]], s.dsep[v]} \ {None}

\* the pointers and the data of x are the same in s and in t
SameNode(s, t, x) ==
  /\ t.parent[x] = s.parent[x]
  /\ t.dsep[x] = s.dsep[x]
  /\ t.isep[x] = s.isep[x]
  /\ t.pdist[x] = s.pdist[x]
  /\ t.adist[x] = s.adist[x]
  /\ t.gdist[x] = s.gdist[x]

\* C25: rotate(v) with the node data's before_rotation changes the parent,
\* the separator children and the data of no node other than v, its parent,
\* its grandparent and its direct separator child.
C25_RotationFrame ==
  (impl.kind = "stt" /\ Running)
    => \A v \in Nodes :
         can_rotate(f, v)
           => /\ rotate(f, v).err = ""
              /\ \A x \in Nodes \ RotationFrame(f, v) : SameNode(f, rotate(f, v), x)

\* some v can be rotated that has a grandparent and a child outside of the
\* frame, and some v that has a direct separator child and a node outside
\* of the frame (four nodes do not hold both at once)
C25_Witness ==
  /\ impl.kind = "stt"
  /\ Running
  /\ \E v \in Nodes :
       /\ can_rotate(f, v)
       /\ f.parent[f.parent[v]] # None
       /\ \E x \in Nodes \ RotationFrame(f, v) : f.parent[x] = v
       /\ ~SameNode(f, rotate(f, v), v)
  /\ \E v \in Nodes :
       /\ can_rotate(f, v)
       /\ f.dsep[v] # None
       /\ Nodes \ RotationFrame(f, v) # {}
       /\ ~SameNode(f, rotate(f, v), f.dsep[v])


\* ------------------------------------------------- the node data of an STT
\* pdist and the group pdist of every node of t are right: the weight of
\* the underlying path to the parent, infinity at a root
ParentDistances(t) ==
  \A x \in Nodes :
    IF t.parent[x] = None THEN t.pdist[x] = Infinite /\ t.gdist[x] = Infinite
    ELSE /\ RefNow(x, t.parent[x]).ok
         /\ t.pdist[x] = Finite(RefNow(x, t.parent[x]).m)
         /\ t.gdist[x] = Finite(RefNow(x, t.parent[x]).gw)

\* C26: in every state reached by link, cut and the queries, and after
\* every rotation that can be made there, every node with a parent has as
\* pdist (monoid and group data) the finite weight of the underlying path
\* to its parent, and every root has pdist infinity.
C26_ParentDistance ==
  (impl.kind = "stt" /\ Running)
    => /\ ParentDistances(f)
       /\ \A v \in Nodes : can_rotate(f, v) => ParentDistances(rotate(f, v))

\* a path of all nodes whose STT has a node three levels deep, with a
\* parent that is not its neighbour, and a rotation that changes a pdist
C26_Witness ==
  /\ impl.kind = "stt"
  /\ Running
  /\ \E x \in Nodes :
       /\ f.parent[x] # None
       /\ RefNow(x, f.parent[x]).len > 1
       /\ RefNow(x, f.parent[x]).m # RefNow(x, f.parent[x]).gw
  /\ \E v \in Nodes :
       /\ can_rotate(f, v)
       /\ f.parent[f.parent[v]] # None
       /\ rotate(f, v).pdist[v] # f.pdist[v]

\* the ancestor of x, other than its parent, that is adjacent to the
\* subtree of x; None without one
AdjacentAncestor(t, x) ==
  LET others == Boundary(t, RefEdges(g), x) \ {t.parent[x]}
  IN IF others = {} THEN None ELSE CHOOSE a \in others : TRUE

\* adist of every node of t is right
AdjacentDistances(t) ==
  \A x \in Nodes :
    IF is_separator(t, x)
    THEN /\ AdjacentAncestor(t, x) # None
         /\ t.adist[x] = Finite(RefNow(x, AdjacentAncestor(t, x)).m)
    ELSE t.adist[x] = Infinite

\* C27: in every reachable state, and after every rotation that can be
\* made there, every separator has as adist the weight of the underlying
\* path to its adjacent ancestor and every other node has adist infinity.
C27_AdjacentDistance ==
  (impl.kind = "stt" /\ Running)
    => /\ AdjacentDistances(f)
       /\ \A v \in Nodes : can_rotate(f, v) => AdjacentDistances(rotate(f, v))


\* a direct and an indirect separator with their distances, and a rotation
\* that changes an adist and leaves a finite one
C27_Witness ==
  /\ impl.kind = "stt"
  /\ Running
  /\ \E x \in Nodes :
       /\ is_direct_separator(f, x)
       /\ AdjacentAncestor(f, x) = f.parent[f.parent[x]]
       /\ f.adist[x] # f.pdist[x]
  /\ \E x \in Nodes :
       /\ is_indirect_separator(f, x)
       /\ AdjacentAncestor(f, x) \notin {None, f.parent[f.parent[x]]}
       /\ f.adist[x] # f.pdist[x]
  /\ \E v \in Nodes :
       /\ can_rotate(f, v)
       /\ rotate(f, v).adist # f.adist
       /\ \E x \in Nodes : rotate(f, v).adist[x] # Infinite


\* cut(u, v) leaves u, the node it detaches, a root without distances
DetachedClear(u, v) ==
  LET clear(t2) ==
        /\ t2.err = ""
        /\ t2.parent[u] = None
        /\ t2.pdist[u] = Infinite
        /\ t2.adist[u] = Infinite
  IN clear(STT_cut(impl, f, u, v))

\* C28: on an STT forest with MonoidPathWeightNodeData, after cut(u, v) of
\* an edge, in every reachable state, the node that was detached has pdist
\* infinity and adist infinity.
C28_DetachClears ==
  (impl.kind = "stt" /\ Running)
    => \A u, v \in Nodes : (u # v /\ {u, v} \in RefEdges(g)) => DetachedClear(u, v)

\* an edge is cut whose node to detach is a separator with a finite adist
\* before the cut
C28_Witness ==
  /\ impl.kind = "stt"
  /\ Running
  /\ \E u, v \in Nodes :
       /\ u # v
       /\ {u, v} \in RefEdges(g)
       /\ is_separator(f, u)
       /\ f.adist[u] # Infinite
       /\ f.parent[u] # v
       /\ DetachedClear(u, v)


\* ------------------------------------------------- no illegal rotation
\* the strategies other than GreedySplayStrategy, and those of them that
\* are extended ones
RotatingStrategies ==
  {"MoveToRoot", "TwoPassSplay", "LocalTwoPassSplay", "StableTwoPassSplay",
   "StableLocalTwoPassSplay"}

\* C29: on every valid 2-cut STT, node_to_root(v) of MoveToRootStrategy,
\* TwoPassSplayStrategy, LocalTwoPassSplayStrategy and the stable two-pass
\* strategies, and node_below_root(v) of the first three for a v that is no
\* root, rotate only nodes that have a parent and are separators or have a
\* parent that is none: the assertion of rotate never fails, nor another.
C29_NoIllegalRotation ==
  (impl.kind = "large_stt" /\ f.err = "")
    => \A v \in LargeNodes :
         /\ \A s \in RotatingStrategies : node_to_root(s, f, v).err = ""
         /\ \A s \in RotatingStrategies \cap ExtendedStrategies :
              f.parent[v] # None => node_below_root(s, f, v).err = ""

\* a node five levels down that cannot be rotated, with two separators on
\* its root path, is brought to the root by every strategy and below the
\* root by the extended ones
C29_Witness ==
  /\ impl.kind = "large_stt"
  /\ f.err = ""
  /\ \E v \in LargeNodes :
       /\ Cardinality(STT_ancestors(f, v, Fuel)) >= 4
       /\ ~can_rotate(f, v)
       /\ Cardinality({x \in STT_ancestors(f, v, Fuel) : is_separator(f, x)}) >= 2
       /\ \A s \in RotatingStrategies :
            node_to_root(s, f, v).err = "" /\ node_to_root(s, f, v).parent[v] = None
       /\ \A s \in RotatingStrategies \cap ExtendedStrategies :
            /\ node_below_root(s, f, v).err = ""
            /\ node_below_root(s, f, v).parent[v] # None
            /\ node_below_root(s, f, v).parent[node_below_root(s, f, v).parent[v]] = None


\* ------------------------------------------------------------ greedy splay
\* splay_step(x) on t makes two rotations that rotate permits
SplayStepLegal(t, x) ==
  LET first == IF is_direct_separator(t, x) THEN x ELSE t.parent[x]
  IN /\ can_rotate(t, first)
     /\ can_rotate(rotate(t, first), x)
     /\ splay_step(t, x).err = ""

\* in t, move_to(v, target) finds the splay steps at v and at its parent
\* both illegal
BothFailed(t, v, target) ==
  /\ Greedy_try_splay(t, v, target).r = "Failed"
  /\ Greedy_try_splay(t, t.parent[v], target).r = "Failed"

\* the roots of t
STT_roots(t) == {x \in DOMAIN t.parent : t.parent[x] = None}

\* C30: in GreedySplayStrategy::move_to, whenever the splay step at v and
\* the splay step at its parent p are both illegal, the grandparent of v
\* has a parent and a grandparent and both rotations of its splay step are
\* legal; and move_to with the target BelowRoot does not move the root.
C30_GreedySplay ==
  (impl.kind = "large_stt" /\ f.err = "")
    => \A v \in LargeNodes :
         /\ \A target \in {"Root", "BelowRoot"} :
              BothFailed(f, v, target)
                => /\ f.parent[f.parent[f.parent[v]]] # None
                   /\ f.parent[f.parent[f.parent[f.parent[v]]]] # None
                   /\ SplayStepLegal(f, f.parent[f.parent[v]])
                   /\ Greedy_on_failed(f, v, target).err = ""
         /\ Greedy_move_to(f, v, "BelowRoot").err = ""
         /\ STT_roots(Greedy_move_to(f, v, "BelowRoot")) = STT_roots(f)

\* the splay steps at some v and at its parent are both illegal, for both
\* targets, and move_to brings v below the root
C30_Witness ==
  /\ impl.kind = "large_stt"
  /\ f.err = ""
  /\ \E v \in LargeNodes :
       /\ BothFailed(f, v, "Root")
       /\ BothFailed(f, v, "BelowRoot")
       /\ SplayStepLegal(f, f.parent[f.parent[v]])
       /\ Greedy_move_to(f, v, "BelowRoot").parent[v] \in STT_roots(f)
       /\ Greedy_move_to(f, v, "Root").parent[v] = None

\* ------------------------------------------------- legality of splay steps
\* C31: on every valid 2-cut STT, for every node x with a parent p and a
\* grandparent g, the two rotations that splay_step(x) makes are both
\* permitted by rotate (the rotated node is a separator or its parent is
\* none) if and only if can_splay_step(x, p, g) holds, that is if g is no
\* separator or x and p are both separators.
C31_SplayStepLegality ==
  (impl.kind = "large_stt" /\ f.err = "")
    => \A x \in LargeNodes :
         (f.parent[x] # None /\ f.parent[f.parent[x]] # None)
           => (SplayStepLegal(f, x)
                 <=> can_splay_step(f, x, f.parent[x], f.parent[f.parent[x]]))

\* one tree with a legal splay step below a separator grandparent, at a
\* direct and at an indirect separator, with an illegal one for each way
\* can_splay_step fails, and with one that begins by rotating the parent
\* below a grandparent that is no separator
C31_Witness ==
  /\ impl.kind = "large_stt"
  /\ f.err = ""
  /\ \E x \in LargeNodes :
       /\ f.parent[x] # None /\ f.parent[f.parent[x]] # None
       /\ is_separator(f, f.parent[f.parent[x]])
       /\ is_separator(f, f.parent[x])
       /\ is_separator(f, x)
       /\ SplayStepLegal(f, x)
  /\ \E x \in LargeNodes :
       /\ f.parent[x] # None /\ f.parent[f.parent[x]] # None
       /\ is_separator(f, f.parent[f.parent[x]])
       /\ is_separator(f, f.parent[x])
       /\ ~is_separator(f, x)
       /\ ~SplayStepLegal(f, x)
  /\ \E x \in LargeNodes :
       /\ f.parent[x] # None /\ f.parent[f.parent[x]] # None
       /\ ~is_separator(f, f.parent[f.parent[x]])
       /\ ~is_direct_separator(f, x)
       /\ SplayStepLegal(f, x)

\* ------------------------------------------------------------- termination
\* the six strategies
AllStrategies == ExtendedStrategies \cup StableStrategies

\* the number of proper ancestors of x in the search tree t
Depth(t, x) == Cardinality(STT_ancestors(t, x, Fuel))

\* one pass t1 through a loop that began in t brought x nearer to the root,
\* or failed an assertion, which ends the call
Progress(t1, t, x) == t1.err # "" \/ Depth(t1, x) < Depth(t, x)

\* one pass through the loop of GreedySplayStrategy::move_to that does not
\* return
Greedy_pass(t, v, target) ==
  IF Greedy_try_splay(t, v, target).r = "Failed"
  THEN Greedy_on_failed(Greedy_try_splay(t, v, target).t, v, target)
  ELSE Greedy_try_splay(t, v, target).t

\* v and its grandparent in t are such that the loops of the splay
\* strategies make a step of two levels
TwoLevels(t, v, target) ==
  /\ t.parent[v] # None
  /\ t.parent[t.parent[v]] # None
  /\ (target = "Root" \/ t.parent[t.parent[t.parent[v]]] # None)

\* every pass through a loop of a strategy brings the node the loop is about
\* nearer to the root: p in the loop of move_step, v in the loops of
\* MoveToRootStrategy, of GreedySplayStrategy and of the local two-pass
\* strategies and in the second pass of the two-pass strategies, the
\* branching node b in their first pass, where the next branching node is
\* looked for above b
LoopsProgress(t) ==
  \A v \in DOMAIN t.parent :
    /\ (t.parent[v] # None /\ is_separator(t, v))
         => Progress(rotate(t, v), t, v)
    /\ t.parent[v] # None
         => Progress(MoveToRoot_move_step(t, v, t.parent[v]), t, v)
    /\ \A target \in {"Root", "BelowRoot"} :
         /\ Greedy_try_splay(t, v, target).r # "Done"
              => Progress(Greedy_pass(t, v, target), t, v)
         /\ is_separator(t, v)
              => /\ Progress(TwoPass_branching_step(t, v, target), t, v)
                 /\ find_next_branching_node(TwoPass_branching_step(t, v, target), v)
                      \in {None} \cup STT_ancestors(TwoPass_branching_step(t, v, target), v, Fuel)
         /\ TwoLevels(t, v, target)
              => /\ Progress(splay_step(t, v), t, v)
                 /\ Progress(LocalTwoPass_step(t, v, t.parent[v], t.parent[t.parent[v]], target),
                             t, v)
    /\ is_separator(t, v)
         => /\ Progress(Stable_branching_step(t, v), t, v)
            /\ find_next_branching_node(Stable_branching_step(t, v), v)
                 \in {None} \cup STT_ancestors(Stable_branching_step(t, v), v, Fuel)
    /\ TwoLevels(t, v, "Root")
         => Progress(StableLocalTwoPass_step(t, v, t.parent[v], t.parent[t.parent[v]]), t, v)

\* t is the tree a call came back with: no loop of it was cut off, and no
\* assertion failed
CameBack(t) == t.err = ""

\* the first pass of the two-pass strategies, started for v in t, makes a
\* branching step at a node that is a separator afterwards as well, so that
\* the next step is made at the same node
RepeatsBranchingStep(t, v) ==
  /\ find_next_branching_node(t, v) # None
  /\ is_separator(TwoPass_branching_step(t, find_next_branching_node(t, v), "Root"),
                  find_next_branching_node(t, v))
  /\ is_separator(Stable_branching_step(t, find_next_branching_node(t, v)),
                  find_next_branching_node(t, v))

\* C32: on every valid 2-cut STT and for every node v, every pass through a
\* loop of the six strategies brings the node it works on nearer to the
\* root, so that each loop ends after finitely many rotations; and
\* node_to_root(v) of each of the six strategies comes back, with v a root,
\* and for a v that is no root node_below_root(v) of the four extended
\* strategies comes back, with v a child of a root.
C32_Termination ==
  (impl.kind = "large_stt" /\ f.err = "")
    => /\ LoopsProgress(f)
       /\ \A v \in LargeNodes :
            /\ \A s \in AllStrategies :
                 /\ CameBack(node_to_root(s, f, v))
                 /\ node_to_root(s, f, v).parent[v] = None
            /\ \A s \in ExtendedStrategies :
                 f.parent[v] # None
                   => /\ CameBack(node_below_root(s, f, v))
                      /\ node_below_root(s, f, v).parent[v]
                           \in STT_roots(node_below_root(s, f, v))

\* a node on whose root path the first pass repeats a branching step at the
\* same node, and which all strategies bring to the root and below it
C32_Witness ==
  /\ impl.kind = "large_stt"
  /\ f.err = ""
  /\ \E v \in LargeNodes :
       /\ RepeatsBranchingStep(f, v)
       /\ \A s \in AllStrategies :
            CameBack(node_to_root(s, f, v)) /\ node_to_root(s, f, v).parent[v] = None
       /\ \A s \in ExtendedStrategies :
            /\ CameBack(node_below_root(s, f, v))
            /\ node_below_root(s, f, v).parent[v] \in STT_roots(node_below_root(s, f, v))

\* ------------------------------------------------- rotations of make_1_cut
RECURSIVE make_1_cut_counted(_, _, _)
\* make_1_cut as the benchmark has it, from node v on with rot_count
\* rotations made: the tree it ends with and the number of rotations
make_1_cut_counted(t, v, rot_count) ==
  IF v \notin DOMAIN t.parent \/ t.err # "" \/ rot_count > Fuel THEN Answer(t, rot_count)
  ELSE IF is_separator(t, v) THEN make_1_cut_counted(rotate(t, v), v, rot_count + 1)
  ELSE make_1_cut_counted(t, v + 1, rot_count)

\* the number of rotations of make_1_cut on t
rot_count_of(t) == make_1_cut_counted(t, 0, 0).r

\* n(n-1)/2 for the n nodes of t
RotationBound(t) ==
  (Cardinality(DOMAIN t.parent) * (Cardinality(DOMAIN t.parent) - 1)) \div 2

\* C33: on every valid 2-cut STT of n nodes make_1_cut makes at most
\* n(n-1)/2 rotations, after which no node is a separator.
C33_RotationBound ==
  (impl.kind = "large_stt" /\ f.err = "")
    => /\ rot_count_of(f) <= RotationBound(f)
       /\ make_1_cut_counted(f, 0, 0).t.err = ""
       /\ \A v \in LargeNodes : ~is_separator(make_1_cut_counted(f, 0, 0).t, v)

\* every node of t has at most one child
IsPath(t) ==
  \A x \in DOMAIN t.parent :
    Cardinality({y \in DOMAIN t.parent : t.parent[y] = x}) <= 1

\* a path of n nodes of which the n-2 lowest are separators, on which
\* make_1_cut makes (n-1)(n-2)/2 rotations
C33_Witness ==
  /\ impl.kind = "large_stt"
  /\ f.err = ""
  /\ IsPath(f)
  /\ Cardinality({x \in LargeNodes : is_separator(f, x)}) = Cardinality(LargeNodes) - 2
  /\ rot_count_of(f) = ((Cardinality(LargeNodes) - 1) * (Cardinality(LargeNodes) - 2)) \div 2
  /\ rot_count_of(f) <= RotationBound(f)
  /\ \A v \in LargeNodes : ~is_separator(make_1_cut_counted(f, 0, 0).t, v)

\* ---------------------------------------------- the variant of make_1_cut
\* the number of nodes in the subtree of v in the search tree t
SubtreeSize(t, v) ==
  Cardinality({x \in DOMAIN t.parent : x = v \/ v \in STT_ancestors(t, x, Fuel)})

RECURSIVE SumOfSizes(_, _)
\* the sum of the subtree sizes of the nodes S in t
SumOfSizes(t, S) ==
  IF S = {} THEN 0
  ELSE SubtreeSize(t, CHOOSE x \in S : TRUE) + SumOfSizes(t, S \ {CHOOSE x \in S : TRUE})

\* the sum, over the separators of t, of the sizes of their subtrees
SeparatorSizes(t) == SumOfSizes(t, {x \in DOMAIN t.parent : is_separator(t, x)})

\* the node that make_1_cut rotates next in t: the separator with the
\* least index
NextSeparator(t) ==
  CHOOSE v \in DOMAIN t.parent :
    is_separator(t, v) /\ \A x \in DOMAIN t.parent : is_separator(t, x) => v <= x

\* the separators of t
Separators(t) == {x \in DOMAIN t.parent : is_separator(t, x)}

\* the rotation of the separator v in t takes v out of the separators and
\* changes them in no other way, or leaves the separators as they are and
\* brings v one level nearer to the root
VariantStep(t, v) ==
  /\ rotate(t, v).err = ""
  /\ \/ Separators(rotate(t, v)) = Separators(t) \ {v}
     \/ /\ Separators(rotate(t, v)) = Separators(t)
        /\ Depth(rotate(t, v), v) < Depth(t, v)

\* C34 as the specification has it: every rotation that make_1_cut makes,
\* of the separator with the least index, strictly decreases the sum of the
\* subtree sizes of the separators.
C34_SumOfSizesDecreases ==
  (impl.kind = "large_stt" /\ f.err = "" /\ Separators(f) # {})
    => SeparatorSizes(rotate(f, NextSeparator(f))) < SeparatorSizes(f)

\* C34, amended: every rotation that make_1_cut makes, of the separator v
\* with the least index, either takes v out of the set of separators and
\* leaves the other separators what they are, or leaves the set unchanged
\* and brings v nearer to the root; so the pair of the number of separators
\* and the depth of the least separator decreases with every rotation.
C34_Variant ==
  (impl.kind = "large_stt" /\ f.err = "" /\ Separators(f) # {})
    => VariantStep(f, NextSeparator(f))

\* a rotation of make_1_cut after which the sum of subtree sizes of the
\* separators is larger than before, while the separators are the same and
\* the rotated node is nearer to the root
C34_Witness ==
  /\ impl.kind = "large_stt"
  /\ f.err = ""
  /\ Separators(f) # {}
  /\ SeparatorSizes(rotate(f, NextSeparator(f))) > SeparatorSizes(f)
  /\ Separators(rotate(f, NextSeparator(f))) = Separators(f)
  /\ Depth(rotate(f, NextSeparator(f)), NextSeparator(f)) < Depth(f, NextSeparator(f))

\* ------------------------------------------------------------- desc_root
\* in the search tree t over the rooted forest par, every node x stores the
\* root of its underlying tree if that root is in the subtree of x, else
\* nothing
DescRootRight(t, par) ==
  \A x \in Nodes :
    t.desc_root[x] = IF Simple_find_root(par, x) \in STT_subtree(t, x)
                     THEN Simple_find_root(par, x)
                     ELSE None

RECURSIVE RotatedFrom(_, _)
\* the trees that up to k rotations lead to from the trees S, each rotation
\* one that rotate permits
RotatedFrom(S, k) ==
  IF k = 0 THEN S
  ELSE RotatedFrom(
         S \cup UNION {{rotate(t, v) : v \in {x \in Nodes : can_rotate(t, x)}} : t \in S},
         k - 1)

\* C35: in every state of a rooted STT forest reached by link, cut,
\* make_root, find_root and lowest_common_ancestor, and in every tree that
\* rotations lead to from there, desc_root(x) is the underlying root of the
\* tree of x if that root lies in the STT subtree of x and none otherwise;
\* so every STT root stores the underlying root of its tree.
C35_DescRoot ==
  (impl.kind = "rooted_stt" /\ f.err = "")
    => \A t \in RotatedFrom({f}, MaxSteps) :
         /\ t.err = ""
         /\ DescRootRight(t, g)
         /\ \A x \in Nodes : t.parent[x] = None => t.desc_root[x] = Simple_find_root(g, x)

\* a tree of four nodes whose underlying root is neither the STT root nor a
\* child of it, with a node beside the path to it that stores nothing
C35_Witness ==
  /\ impl.kind = "rooted_stt"
  /\ f.err = ""
  /\ DescRootRight(f, g)
  /\ \E r, x, y \in Nodes :
       /\ g[r] = None
       /\ f.parent[r] # None /\ f.parent[f.parent[r]] # None
       /\ f.desc_root[f.parent[r]] = r
       /\ Simple_find_root(g, x) = r /\ f.desc_root[x] = None
       /\ f.parent[y] = None /\ y # r /\ f.desc_root[y] = r
  /\ \E t \in RotatedFrom({f}, MaxSteps) : t.parent # f.parent /\ DescRootRight(t, g)

\* ------------------------------------------- the parent search of cut(v)
\* StandardRootedDynamicForest::cut(v) up to the search: v at the root and
\* the underlying root r below it
Standard_cut_search(i, t, v) ==
  node_below_root(i.strategy, node_to_root(i.strategy, t, v),
                  node_to_root(i.strategy, t, v).desc_root[v])

\* StableRootedDynamicForest::cut(v) up to the search: r to the root, then v
Stable_cut_search(i, t, v) ==
  node_to_root(i.strategy,
               node_to_root(i.strategy, node_to_root(i.strategy, t, v),
                            node_to_root(i.strategy, t, v).desc_root[v]),
               v)

\* the tree in which cut(v) searches the parent of v, and the child of v
\* the search starts from: the one that holds the underlying root r
CutSearch(i, t, v) ==
  IF i.ntr = "extended" THEN Standard_cut_search(i, t, v) ELSE Stable_cut_search(i, t, v)

SearchFrom(i, t, v) ==
  IF i.ntr = "extended" THEN node_to_root(i.strategy, t, v).desc_root[v]
  ELSE child_of_root_above(CutSearch(i, t, v), node_to_root(i.strategy, t, v).desc_root[v],
                           v, NumNodes)

\* the node x that cut(v) finds
FoundParent(i, t, v) == underlying_parent_from(CutSearch(i, t, v), SearchFrom(i, t, v))

\* the tree with x raised next to v: below the root v, or to the root
ParentRaised(i, t, v) ==
  IF i.ntr = "extended"
  THEN node_below_root(i.strategy, CutSearch(i, t, v), FoundParent(i, t, v))
  ELSE node_to_root(i.strategy, CutSearch(i, t, v), FoundParent(i, t, v))

\* the search of cut(v) in t over the forest par finds the parent of v, and
\* the assertions that follow it hold
ParentFound(i, t, par, v) ==
  /\ CutSearch(i, t, v).err = ""
  /\ CutSearch(i, t, v).parent[v] = None
  /\ SearchFrom(i, t, v) # None
  /\ CutSearch(i, t, v).parent[SearchFrom(i, t, v)] = v
  /\ CutSearch(i, t, v).desc_root[SearchFrom(i, t, v)] = Simple_find_root(par, v)
  /\ FoundParent(i, t, v) = par[v]
  /\ ParentRaised(i, t, v).err = ""
  /\ ParentRaised(i, t, v).dsep[par[v]] = None
  /\ i.ntr = "extended" => ParentRaised(i, t, v).parent[par[v]] = v
  /\ i.ntr = "stable" => ParentRaised(i, t, v).parent[v] = par[v]
  /\ RDF_cut(i, t, v).err = ""

\* C36: in cut(v) of both rooted STT forests, for a v that is no root of
\* its underlying tree, the node x reached from the child of v that holds
\* the underlying root, by its direct separator child and then along the
\* indirect separator children, is the parent of v in the underlying tree;
\* raised next to v, x has no direct separator child, and in the stable
\* forest x is then the parent of v in the search tree.
C36_ParentSearch ==
  (impl.kind = "rooted_stt" /\ f.err = "")
    => \A v \in Nodes : g[v] # None => ParentFound(impl, f, g, v)

\* cut(v) finds the parent of v at the end of a walk that takes the direct
\* separator child and goes on to an indirect separator child of it
C36_Witness ==
  /\ impl.kind = "rooted_stt"
  /\ f.err = ""
  /\ \E v \in Nodes :
       /\ g[v] # None
       /\ ParentFound(impl, f, g, v)
       /\ CutSearch(impl, f, v).dsep[SearchFrom(impl, f, v)] # None
       /\ FoundParent(impl, f, v) # CutSearch(impl, f, v).dsep[SearchFrom(impl, f, v)]

\* ------------------------- the link-cut forests, rotation by rotation
\* The calls of a LinkCutForest together with the steps node_to_root is
\* made of, each a step of its own, so that the states between the
\* rotations and splices of a call are states here: rotate(v) where
\* splay_solid rotates, at a left or right child; try_splice(v) where
\* node_to_root splices, at the root of a solid subtree whose parent is the
\* root of one; push_reverse_bit(v), which splay_solid does on the way.
InitLinkCut ==
  /\ impl \in {LinkCutImpl, [kind |-> "rooted_linkcut", ntr |-> "-", strategy |-> "-"]}
  /\ f = IF impl.kind = "linkcut" THEN LC_new_weighted ELSE LC_new_rooted
  /\ g = IF impl.kind = "linkcut" THEN {} ELSE [x \in Nodes |-> None]

\* rotate(v)
LcRotate(v) ==
  /\ Running
  /\ is_non_middle_child(f, v)
  /\ f' = LC_rotate(f, v)
  /\ UNCHANGED <<impl, g>>

\* try_splice(v)
LcSplice(v) ==
  /\ Running
  /\ f.parent[v] # None
  /\ ~is_non_middle_child(f, v)
  /\ ~is_non_middle_child(f, f.parent[v])
  /\ f' = try_splice(f, v).t
  /\ UNCHANGED <<impl, g>>

\* push_reverse_bit(v) at a node whose bit is set
LcPush(v) ==
  /\ Running
  /\ f.reversed[v]
  /\ f' = LC_push_reverse_bit(f, v)
  /\ UNCHANGED <<impl, g>>

NextLinkCut ==
  \/ \E u, v \in Nodes : impl.kind = "linkcut" /\ Link(u, v, EdgeWeight(u, v))
  \/ \E u, v \in Nodes : impl.kind = "linkcut" /\ Cut(u, v)
  \/ \E u, v \in Nodes : impl.kind = "rooted_linkcut" /\ RLink(u, v)
  \/ \E v \in Nodes : impl.kind = "rooted_linkcut" /\ RCut(v)
  \/ \E v \in Nodes : LcRotate(v)
  \/ \E v \in Nodes : LcSplice(v)
  \/ \E v \in Nodes : LcPush(v)

SpecLinkCut == InitLinkCut /\ [][NextLinkCut]_vars

\* LinkCutForest::_verify: the left and the right child of a node have it
\* as their parent, and a node with a parent has a parent path weight
LC_verify(t) ==
  \A v \in Nodes :
    /\ t.left[v] # None => t.parent[t.left[v]] = v
    /\ t.right[v] # None => t.parent[t.right[v]] = v
    /\ (t.kind = "weighted" /\ t.parent[v] # None)
         => t.pdist[v] # Infinite /\ t.gdist[v] # Infinite

\* C37: after every rotation and every splice of a link-cut forest, and
\* after every call, no assertion has failed, every left child and right
\* child of a node has that node as its parent, and every node with a parent
\* has a finite parent path weight.
C37_LinkCutVerify == f.err = "" /\ LC_verify(f)

\* a weighted forest of three edges in the middle of a call: a node with a
\* left and a right child, another that is a middle child, and a reverse
\* bit that is set
C37_Witness ==
  /\ impl.kind = "linkcut"
  /\ f.err = ""
  /\ Cardinality(g) = NumNodes - 1
  /\ LC_verify(f)
  /\ \E v \in Nodes : f.left[v] # None /\ f.right[v] # None
  /\ \E v \in Nodes : f.parent[v] # None /\ ~is_non_middle_child(f, v)
  /\ \E v \in Nodes : f.reversed[v]

\* ------------------------------------------------- cut of a link-cut edge
\* the edges of the forest that the reference holds
PresentEdges == IF impl.kind = "linkcut" THEN RefEdges(g) ELSE Simple_edges(g)

\* cut(u, v) of the weighted forest, cut_edge(u, v) of the rooted one
CutEdge(t, u, v) == IF impl.kind = "linkcut" THEN LC_cut(t, u, v) ELSE LCR_cut_edge(t, u, v)

\* only v brought to the root
OnlySecondToRoot(t, u, v) == LC_node_to_root(t, v)

\* u and then v brought to the root of t
BothToRoot(t, u, v) == LC_node_to_root(LC_node_to_root(t, u), v)

\* cutting the edge {u, v}, named from u, finds v the parent of u and takes
\* this edge and no other out of the forest
CutsEdge(t, u, v) ==
  /\ BothToRoot(t, u, v).err = ""
  /\ BothToRoot(t, u, v).parent[u] = v
  /\ CutEdge(t, u, v).err = ""
  /\ CutEdge(t, u, v).parent[u] = None
  /\ LC_edges(CutEdge(t, u, v)) = PresentEdges \ {{u, v}}

\* C38: whenever {u, v} is an edge of the underlying forest, after
\* node_to_root(u) and then node_to_root(v) the parent of u in the link-cut
\* forest is v, so that the assertions of cut and cut_edge hold, and with
\* that pointer cleared the forest holds the edges it held before without
\* {u, v}.
C38_LinkCutCut ==
  f.err = ""
    => \A u, v \in Nodes : (u # v /\ {u, v} \in PresentEdges) => CutsEdge(f, u, v)

\* an edge in the middle of a path of three edges is cut, named from either
\* end, in a forest where neither end is a child of the other before
C38_Witness ==
  /\ f.err = ""
  /\ \E u, v \in Nodes :
       /\ u # v
       /\ {u, v} \in PresentEdges
       /\ f.parent[u] # v /\ f.parent[v] # u
       /\ \E x, y \in Nodes \ {u, v} : {x, u} \in PresentEdges /\ {v, y} \in PresentEdges
       /\ CutsEdge(f, u, v)
       /\ CutsEdge(f, v, u)

\* --------------------------------------- a link-cut forest on LargeNodes
\* LinkCutForest::new on LargeNodes, with the same node data as LC_new_weighted
LC_new_large ==
  [kind |-> "weighted", impl_evert |-> TRUE,
   parent |-> [x \in LargeNodes |-> None], left |-> [x \in LargeNodes |-> None],
   right |-> [x \in LargeNodes |-> None], reversed |-> [x \in LargeNodes |-> FALSE],
   pdist |-> [x \in LargeNodes |-> Infinite], adist |-> [x \in LargeNodes |-> Infinite],
   gdist |-> [x \in LargeNodes |-> Infinite], err |-> ""]

RECURSIVE LinkedLarge(_, _, _, _)
\* the edges of the tree par linked one by one from node x on; up tells
\* which end of an edge is named first in link
LinkedLarge(t, par, up, x) ==
  IF x \notin LargeNodes \/ t.err # "" THEN t
  ELSE IF up THEN LinkedLarge(LC_link(t, x, par[x], EdgeWeight(x, par[x])), par, up, x + 1)
  ELSE LinkedLarge(LC_link(t, par[x], x, EdgeWeight(x, par[x])), par, up, x + 1)

InitLargeLinkCut ==
  /\ impl = [kind |-> "large_linkcut", ntr |-> "-", strategy |-> "-"]
  /\ \E par \in LargeTrees : \E up \in BOOLEAN :
       f = LinkedLarge(LC_new_large, par, up, 1) /\ g = par

\* node_to_root(v), the step that link, cut and compute_path_weight share
ExposeLarge(v) ==
  /\ impl.kind = "large_linkcut"
  /\ f.err = ""
  /\ f' = LC_node_to_root(f, v)
  /\ UNCHANGED <<impl, g>>

NextLargeLinkCut == \E v \in LargeNodes : ExposeLarge(v)

SpecLargeLinkCut == InitLargeLinkCut /\ [][NextLargeLinkCut]_vars

\* ------------------------------------- the shape a path query sums over
RECURSIVE LC_depth(_, _, _)
\* the number of parent pointers from x to the root of its link-cut tree
LC_depth(t, x, fuel) ==
  IF t.parent[x] = None \/ fuel = 0 THEN 0 ELSE 1 + LC_depth(t, t.parent[x], fuel - 1)

RECURSIVE LC_left_spine_of(_, _, _)
\* x and the nodes reached from it by left child pointers
LC_left_spine_of(t, x, fuel) ==
  IF x = None \/ fuel = 0 THEN {} ELSE {x} \cup LC_left_spine_of(t, t.left[x], fuel - 1)

RECURSIVE LC_right_spine_of(_, _, _)
\* x and the nodes reached from it by right child pointers
LC_right_spine_of(t, x, fuel) ==
  IF x = None \/ fuel = 0 THEN {} ELSE {x} \cup LC_right_spine_of(t, t.right[x], fuel - 1)

\* u is on the left or on the right spine of the solid tree of the root v
OnRootSpine(t, u, v) ==
  u \in LC_left_spine_of(t, v, Fuel) \cup LC_right_spine_of(t, v, Fuel)


RECURSIVE LC_middle_edges(_, _, _)
\* the number of nodes from x up to the root that are middle children
LC_middle_edges(t, x, fuel) ==
  IF t.parent[x] = None \/ fuel = 0 THEN 0
  ELSE (IF is_non_middle_child(t, x) THEN 0 ELSE 1) + LC_middle_edges(t, t.parent[x], fuel - 1)

\* the pairs of distinct nodes that a path joins in the forest of f
PathQueries ==
  {q \in (DOMAIN f.parent) \X (DOMAIN f.parent) :
     /\ q[1] # q[2]
     /\ impl.kind = "large_linkcut" \/ (impl.kind = "linkcut" /\ RefConnected(g, q[1], q[2]))}

ExposedClean(t, v) ==
  LET clean(t1) == t1.err = "" /\ t1.parent[v] = None /\ ~t1.reversed[v]
  IN clean(LC_node_to_root(t, v))

\* C40: in every reachable state of the link-cut forest with evert, after
\* node_to_root(v) the node v has no parent and its reverse bit is clear,
\* and no node without a parent has its reverse bit set.
C40_RootNotReversed ==
  (f.err = "" /\ f.impl_evert)
    => /\ \A v \in DOMAIN f.parent : ExposedClean(f, v)
       /\ \A x \in DOMAIN f.parent : f.parent[x] = None => ~f.reversed[x]

\* a node with a parent and its reverse bit set is brought to the root, where
\* it has both a left and a right child
C40_Witness ==
  /\ f.err = "" /\ f.impl_evert
  /\ \E v \in DOMAIN f.parent :
       /\ f.parent[v] # None /\ f.reversed[v]
       /\ ExposedClean(f, v)
       /\ LC_node_to_root(f, v).left[v] # None
       /\ LC_node_to_root(f, v).right[v] # None

=============================================================================
